---- MODULE Spec2Model ----
(***************************************************************************)
(* Identity resolution and usage-graph bookkeeping of sf-toolkit           *)
(* (src/index.js): getTemplateId, addSharedPart, removeSharedPart working  *)
(* on the local config files and on the Silverfin platform; and the        *)
(* publish, create, import (fetchAll) and addAllSharedParts operations,    *)
(* each with a specification of its own.                                   *)
(***************************************************************************)
EXTENDS Integers, Sequences, FiniteSets, TLC

\* Operations (and platform changes) in one behaviour of Spec, which starts
\* from any seeded repository.
MaxOps == 1

\* Operations in one behaviour of SpecSeq, which starts from a fresh or a
\* fully identified repository and follows attach / discovery sequences.
MaxSeqOps == 2

\* ------------------------------------------------------------------------
\* The universe: environments, template kinds, the repository's templates.

Scopes == {"firm", "partner"}

EnvIds == {111, 222}

TemplateTypes == {"reconciliationText", "exportFile", "accountTemplate"}

SharedParts == {"sp_x"}

\* <<templateType, handle>> of the templates of the repository. A
\* reconciliation text and an export file share the handle "tpl_y".
Templates ==
  { <<"reconciliationText", "tpl_y">>,
    <<"exportFile", "tpl_y">>,
    <<"accountTemplate", "tpl_z">> }

Repo == Templates \cup { <<"sharedPart", s>> : s \in SharedParts }

RemoteKeys == Scopes \X EnvIds \X Repo

\* ------------------------------------------------------------------------
\* JavaScript values. An object-or-undefined is [def, m]: m maps the
\* object's keys to their values. A missing property reads as 0 (falsy).

EmptyMap == [k \in {} |-> 0]

Undefined == [def |-> FALSE, m |-> EmptyMap]

Obj(m) == [def |-> TRUE, m |-> m]

\* o?.[k]
Prop(o, k) == IF o.def /\ k \in DOMAIN o.m THEN o.m[k] ELSE 0

\* o[k] = v
SetProp(o, k, v) ==
  Obj([x \in (DOMAIN o.m) \cup {k} |-> IF x = k THEN v ELSE o.m[x]])

\* delete o[k]
DelProp(o, k) == Obj([x \in (DOMAIN o.m) \ {k} |-> o.m[x]])

\* Object.keys(o).length
KeyCount(o) == Cardinality(DOMAIN o.m)

\* An array-or-undefined is [def, list].
NoArray == [def |-> FALSE, list |-> <<>>]

Arr(list) == [def |-> TRUE, list |-> list]

NoString == ""

\* ------------------------------------------------------------------------
\* Gateway responses: a status code, no response at all, or a thrown error.

\* The call threw (the catch block runs).
Threw == -1

\* No response object, or one without a status.
NoResponse == 0

Ok == 200

Created == 201

\* 422 and 404 stand for the statuses outside the 2xx class.
AttachResponses == {Threw, NoResponse, Created, 422}

DetachResponses == {Threw, NoResponse, Ok, 404}

\* errorUtils.errorHandler logs the error and terminates the command.
errorHandlerExits == TRUE

\* ------------------------------------------------------------------------
\* State.

VARIABLES
  configs,   \* Config Store: Repo -> [id, partnerId, used_in]
  remote,    \* platform: RemoteKeys -> remote id of the template, 0 if none
  last,      \* the last operation: its arguments, calls, writes and result
  opsLeft,   \* operations still to run in this behaviour
  bodies,    \* Template Body Store: the liquid text of a template, or none
  run        \* the import (fetchAll) in progress: pages, pending records

vars == <<configs, remote, last, opsLeft, bodies, run>>

\* A template without text files in the repository.
NoBody == ""

\* No import is running.
Idle == [kind |-> NoString]

\* fsUtils.readConfig / fsUtils.writeConfig: the record is read and written
\* as one unit; a template without a config file reads as an empty config.
readConfig(cfgs, templateType, handle) ==
  IF <<templateType, handle>> \in DOMAIN cfgs THEN cfgs[<<templateType, handle>>]
  ELSE [id |-> Undefined, partnerId |-> Undefined, used_in |-> NoArray]

writeConfig(cfgs, templateType, handle, config) ==
  [cfgs EXCEPT ![<<templateType, handle>>] = config]

\* SF.findReconciliationTextByHandle / findExportFileByName /
\* findSharedPartByName / findAccountTemplateByName: the record's id, 0 for
\* no record.
findTemplate(rem, type, envId, templateType, handle) ==
  IF <<type, envId, <<templateType, handle>>>> \in DOMAIN rem
  THEN rem[<<type, envId, <<templateType, handle>>>>]
  ELSE 0

\* ------------------------------------------------------------------------
\* getTemplateId

\* Mutant: the id objects are created anew on every discovery, the ids of
\* the other environments and of the other scope are lost.
withFoundId_freshMaps(config, type, envId, foundId) ==
  IF type = "firm"
  THEN [config EXCEPT !.id = Obj(envId :> foundId), !.partnerId = Obj(EmptyMap)]
  ELSE [config EXCEPT !.partnerId = Obj(envId :> foundId), !.id = Obj(EmptyMap)]

\* The config with the id objects initialised and the found id stored in
\* the map of the scope.
withFoundId(config, type, envId, foundId) ==
  LET c1 == IF config.id.def THEN config
            ELSE [config EXCEPT !.id = Obj(EmptyMap)]
      c2 == IF c1.partnerId.def THEN c1
            ELSE [c1 EXCEPT !.partnerId = Obj(EmptyMap)]
  IN  IF type = "firm"
      THEN [c2 EXCEPT !.id = SetProp(c2.id, envId, foundId)]
      ELSE [c2 EXCEPT !.partnerId = SetProp(c2.partnerId, envId, foundId)]

\* Mutant: the "wasn't found" return is missing, the caller is told the id
\* was updated.
getTemplateId_reportsFound(cfgs, rem, type, envId, templateType, handle) ==
  LET key == <<templateType, handle>>
      foundId == findTemplate(rem, type, envId, templateType, handle)
      config == readConfig(cfgs, templateType, handle)
  IN  IF foundId = 0
      THEN [ret |-> "true", configs |-> cfgs,
            lookups |-> <<key>>, calls |-> <<>>, writes |-> <<>>]
      ELSE [ret |-> "true",
            configs |-> writeConfig(cfgs, templateType, handle,
                                    withFoundId(config, type, envId, foundId)),
            lookups |-> <<key>>, calls |-> <<>>, writes |-> <<key>>]

\* Mutant: the config is read, normalised and written before the result of
\* the lookup is looked at.
getTemplateId_writesOnMiss(cfgs, rem, type, envId, templateType, handle) ==
  LET key == <<templateType, handle>>
      foundId == findTemplate(rem, type, envId, templateType, handle)
      config == readConfig(cfgs, templateType, handle)
      normal == [config EXCEPT
                   !.id = IF config.id.def THEN config.id ELSE Obj(EmptyMap),
                   !.partnerId = IF config.partnerId.def THEN config.partnerId
                                 ELSE Obj(EmptyMap)]
  IN  IF foundId = 0
      THEN [ret |-> "false",
            configs |-> writeConfig(cfgs, templateType, handle, normal),
            lookups |-> <<key>>, calls |-> <<>>, writes |-> <<key>>]
      ELSE [ret |-> "true",
            configs |-> writeConfig(cfgs, templateType, handle,
                                    withFoundId(config, type, envId, foundId)),
            lookups |-> <<key>>, calls |-> <<>>, writes |-> <<key>>]

getTemplateId(cfgs, rem, type, envId, templateType, handle) ==
  LET key == <<templateType, handle>>
      foundId == findTemplate(rem, type, envId, templateType, handle)
      config == readConfig(cfgs, templateType, handle)
  IN  IF foundId = 0
      THEN [ret |-> "false", configs |-> cfgs,
            lookups |-> <<key>>, calls |-> <<>>, writes |-> <<>>]
      ELSE [ret |-> "true",
            configs |-> writeConfig(cfgs, templateType, handle,
                                    withFoundId(config, type, envId, foundId)),
            lookups |-> <<key>>, calls |-> <<>>, writes |-> <<key>>]

\* ------------------------------------------------------------------------
\* addSharedPart

\* The operations return false, true, the shared part's config object, or
\* nothing.
Skipped(cfgs) ==
  [ret |-> "true", configs |-> cfgs,
   lookups |-> <<>>, calls |-> <<>>, writes |-> <<>>]

Failed(cfgs, lookups, calls) ==
  [ret |-> "false", configs |-> cfgs,
   lookups |-> lookups, calls |-> calls, writes |-> <<>>]

\* Mutant: the check for export files on partner environments is missing.
unsupportedOnPartner_never(type, templateType) == FALSE

\* Export files take no shared parts on partner environments.
unsupportedOnPartner(type, templateType) ==
  type = "partner" /\ templateType = "exportFile"

\* type == "firm" ? config?.id?.[envId] : config?.partnerId?.[envId]
idForScope(config, type, envId) ==
  IF type = "firm" THEN Prop(config.id, envId) ELSE Prop(config.partnerId, envId)

\* Mutant: the ids are fetched on every attach, stored or not.
needsDiscovery_always(id) == TRUE

\* if (!templateId) ... if (!sharedPartId)
needsDiscovery(id) == id = 0

\* !response || !response.status || !response.status === 201
\* (the third operand is (!response.status) === 201, a boolean compared with
\* a number: always false, so every response that has a status passes)
attachFailed(response) == response = NoResponse

\* Mutant: the template is never recognised as previously stored.
findUsedIn_never(list, templateHandle) == 0

\* used_in.findIndex(handle or name equals templateHandle); 0 for -1
findUsedIn(list, templateHandle) ==
  LET hits == { i \in 1..Len(list) :
                  \/ templateHandle = list[i].handle
                  \/ templateHandle = list[i].name }
  IN  IF hits = {} THEN 0 ELSE CHOOSE i \in hits : \A j \in hits : i <= j

\* The entry pushed for a template that is not stored yet.
newUsageEntry(templateConfig, type, templateType, templateHandle) ==
  [id        |-> IF type = "firm" THEN templateConfig.id ELSE Obj(EmptyMap),
   partnerId |-> IF type = "partner" THEN templateConfig.partnerId
                 ELSE Obj(EmptyMap),
   type      |-> templateType,
   handle    |-> templateHandle,
   name      |-> NoString]

\* Mutant: the active scope's map is replaced by one holding envId only.
withKey_replacesMap(usedIn, templateConfig, type, envId) ==
  IF type = "firm"
  THEN [usedIn EXCEPT
          !.id = SetProp(Obj(EmptyMap), envId, Prop(templateConfig.id, envId))]
  ELSE [usedIn EXCEPT
          !.partnerId = SetProp(Obj(EmptyMap), envId,
                                Prop(templateConfig.partnerId, envId))]

\* "Previously stored": usedInTemplateConfig.id[envId] = templateConfig.id[envId]
\* under firm scope, the same for partnerId under partner scope.
withKey(usedIn, templateConfig, type, envId) ==
  IF type = "firm"
  THEN [usedIn EXCEPT
          !.id = SetProp(usedIn.id, envId, Prop(templateConfig.id, envId))]
  ELSE [usedIn EXCEPT
          !.partnerId = SetProp(usedIn.partnerId, envId,
                                Prop(templateConfig.partnerId, envId))]

\* "Store details in config files": the shared part's config with the
\* template recorded in used_in; threw when a property of undefined is set.
storeDetails(sharedPartConfig, templateConfig, type, envId, templateHandle, templateType) ==
  LET list == IF sharedPartConfig.used_in.def
              THEN sharedPartConfig.used_in.list ELSE <<>>
      templateIndex == IF sharedPartConfig.used_in.def
                       THEN findUsedIn(list, templateHandle) ELSE 0
      usedIn == list[templateIndex]
      threw == /\ templateIndex # 0
               /\ \/ type = "firm" /\ ~usedIn.id.def
                  \/ type = "partner" /\ ~usedIn.partnerId.def
      updated == withKey(usedIn, templateConfig, type, envId)
      newList ==
        IF templateIndex = 0
        THEN Append(list, newUsageEntry(templateConfig, type, templateType,
                                        templateHandle))
        ELSE [list EXCEPT ![templateIndex] = updated]
  IN  IF threw
      THEN [threw |-> TRUE, config |-> sharedPartConfig]
      ELSE [threw |-> FALSE,
            config |-> [sharedPartConfig EXCEPT !.used_in = Arr(newList)]]

addSharedPart(cfgs, rem, type, envId, sharedPartName, templateHandle, templateType, response) ==
  LET tKey == <<templateType, templateHandle>>
      sKey == <<"sharedPart", sharedPartName>>
      templateConfig0 == readConfig(cfgs, templateType, templateHandle)
      sharedPartConfig0 == readConfig(cfgs, "sharedPart", sharedPartName)
      \* Missing template id: identify it by the handle
      r1 == IF needsDiscovery(idForScope(templateConfig0, type, envId))
            THEN getTemplateId(cfgs, rem, type, envId, templateType,
                               templateHandle)
            ELSE Skipped(cfgs)
      templateConfig == readConfig(r1.configs, templateType, templateHandle)
      templateId == idForScope(templateConfig, type, envId)
      \* Missing shared part id: identify it by the name
      r2 == IF needsDiscovery(idForScope(sharedPartConfig0, type, envId))
            THEN getTemplateId(r1.configs, rem, type, envId, "sharedPart",
                               sharedPartName)
            ELSE Skipped(r1.configs)
      sharedPartConfig == readConfig(r2.configs, "sharedPart", sharedPartName)
      sharedPartId == idForScope(sharedPartConfig, type, envId)
      lookups == r1.lookups \o r2.lookups
      call == <<[type |-> type, envId |-> envId,
                 sharedPartId |-> sharedPartId, templateId |-> templateId]>>
      stored == storeDetails(sharedPartConfig, templateConfig, type, envId,
                             templateHandle, templateType)
  IN  IF unsupportedOnPartner(type, templateType)
        THEN Failed(cfgs, <<>>, <<>>)
      ELSE IF r1.ret = "false"
        THEN Failed(cfgs, r1.lookups, <<>>)
      ELSE IF r2.ret = "false"
        THEN [Failed(r1.configs, lookups, <<>>) EXCEPT !.writes = r1.writes]
      ELSE IF attachFailed(response)
        THEN [Failed(r2.configs, lookups, call) EXCEPT
                !.writes = r1.writes \o r2.writes]
      ELSE IF response = Threw \/ stored.threw
        THEN [Failed(r2.configs, lookups, call) EXCEPT
                !.writes = r1.writes \o r2.writes] @@ [caught |-> TRUE]
      ELSE [ret     |-> "config",
            configs |-> writeConfig(
                          writeConfig(r2.configs, templateType, templateHandle,
                                      templateConfig),
                          "sharedPart", sharedPartName, stored.config),
            lookups |-> lookups,
            calls   |-> call,
            writes  |-> r1.writes \o r2.writes \o <<tKey, sKey>>]

\* ------------------------------------------------------------------------
\* removeSharedPart

\* Mutant: the checks for missing ids are missing.
missingLocalId_never(id) == FALSE

\* if (!templateConfig || !templateId) ... if (!sharedPartId)
missingLocalId(id) == id = 0

\* Mutant: the threshold is off by one.
removeWholeEntry_offByOne(totalIds, templateId, targetId) ==
  totalIds <= 2 /\ templateId = targetId

\* totalIds <= 1 && templateId.toString() === targetId.toString()
removeWholeEntry(totalIds, templateId, targetId) ==
  totalIds <= 1 /\ templateId = targetId

\* Mutant: the key is deleted from the maps of both scopes.
withoutKey_bothMaps(usedIn, type, envId) ==
  [usedIn EXCEPT !.id = DelProp(usedIn.id, envId),
                 !.partnerId = DelProp(usedIn.partnerId, envId)]

\* type == "firm" ? delete usedIn.id[envId] : delete usedIn.partnerId[envId]
withoutKey(usedIn, type, envId) ==
  IF type = "firm"
  THEN [usedIn EXCEPT !.id = DelProp(usedIn.id, envId)]
  ELSE [usedIn EXCEPT !.partnerId = DelProp(usedIn.partnerId, envId)]

\* The found branch of "Remove reference from shared part config"
\* (templateIndex !== -1): threw when a map of the entry is undefined;
\* written when the config is written back.
dropFound(sharedPartConfig, type, envId, templateIndex, templateId) ==
  LET list == sharedPartConfig.used_in.list
      usedIn == list[templateIndex]
      totalIds == KeyCount(usedIn.id) + KeyCount(usedIn.partnerId)
      targetId == IF type = "firm" THEN Prop(usedIn.id, envId)
                  ELSE Prop(usedIn.partnerId, envId)
      spliced == SubSeq(list, 1, templateIndex - 1)
                   \o SubSeq(list, templateIndex + 1, Len(list))
      deleted == withoutKey(usedIn, type, envId)
      newList ==
        IF targetId = 0 THEN list
        ELSE IF removeWholeEntry(totalIds, templateId, targetId) THEN spliced
        ELSE [list EXCEPT ![templateIndex] = deleted]
  IN  IF ~usedIn.id.def \/ ~usedIn.partnerId.def
        THEN [threw |-> TRUE, written |-> FALSE, config |-> sharedPartConfig]
      ELSE [threw |-> FALSE, written |-> TRUE,
            config |-> [sharedPartConfig EXCEPT !.used_in = Arr(newList)]]

\* Mutant: the config is written back also when no entry was found.
dropReference_writesAnyway(sharedPartConfig, type, envId, templateHandle, templateId) ==
  LET templateIndex == findUsedIn(sharedPartConfig.used_in.list,
                                  templateHandle)
  IN  IF ~sharedPartConfig.used_in.def
        THEN [threw |-> TRUE, written |-> FALSE, config |-> sharedPartConfig]
      ELSE IF templateIndex = 0
        THEN [threw |-> FALSE, written |-> TRUE, config |-> sharedPartConfig]
      ELSE dropFound(sharedPartConfig, type, envId, templateIndex, templateId)

\* "Remove reference from shared part config": threw when used_in is
\* undefined (findIndex of undefined); nothing is written when no entry
\* has the handle (templateIndex === -1).
dropReference(sharedPartConfig, type, envId, templateHandle, templateId) ==
  LET templateIndex == findUsedIn(sharedPartConfig.used_in.list,
                                  templateHandle)
  IN  IF ~sharedPartConfig.used_in.def
        THEN [threw |-> TRUE, written |-> FALSE, config |-> sharedPartConfig]
      ELSE IF templateIndex = 0
        THEN [threw |-> FALSE, written |-> FALSE, config |-> sharedPartConfig]
      ELSE dropFound(sharedPartConfig, type, envId, templateIndex, templateId)

removeSharedPart(cfgs, type, envId, sharedPartHandle, templateHandle, templateType, response) ==
  LET sKey == <<"sharedPart", sharedPartHandle>>
      templateConfig == readConfig(cfgs, templateType, templateHandle)
      sharedPartConfig == readConfig(cfgs, "sharedPart", sharedPartHandle)
      templateId == idForScope(templateConfig, type, envId)
      sharedPartId == idForScope(sharedPartConfig, type, envId)
      call == <<[type |-> type, envId |-> envId,
                 sharedPartId |-> sharedPartId, templateId |-> templateId]>>
      dropped == dropReference(sharedPartConfig, type, envId, templateHandle,
                               templateId)
  IN  IF missingLocalId(templateId) \/ missingLocalId(sharedPartId)
        THEN Failed(cfgs, <<>>, <<>>)
      ELSE IF response = Threw \/ dropped.threw \/ ~dropped.written
        THEN [Failed(cfgs, <<>>, call) EXCEPT !.ret = "undefined"]
      ELSE [ret     |-> "undefined",
            configs |-> writeConfig(cfgs, "sharedPart", sharedPartHandle,
                                    dropped.config),
            lookups |-> <<>>,
            calls   |-> call,
            writes  |-> <<sKey>>]

\* ------------------------------------------------------------------------
\* Initial states: a repository as the toolkit leaves it, and the platform.

\* The platform's id of a template in an environment at the start.
SeedId(type, envId, key) ==
  (CASE key[1] = "sharedPart" -> 7
     [] key = <<"reconciliationText", "tpl_y">> -> 42
     [] key = <<"exportFile", "tpl_y">> -> 43
     [] OTHER -> 44)
  + (IF envId = 111 THEN 0 ELSE 100)
  + (IF type = "firm" THEN 0 ELSE 1000)

\* The (scope, environment) pairs whose ids the repository already holds.
KnownSeeds ==
  { {},
    {<<"firm", 111>>},
    {<<"firm", 111>>, <<"firm", 222>>},
    {<<"firm", 111>>, <<"partner", 111>>},
    Scopes \X EnvIds }

SeedMap(known, type, key) ==
  [e \in {e \in EnvIds : <<type, e>> \in known} |-> SeedId(type, e, key)]

\* "full": id and partnerId objects; "legacy": written by the firm-only
\* surface, no partnerId; "bare": a config without id objects.
SeedConfig(known, shape, key, usedIn) ==
  [id        |-> IF shape = "bare" THEN Undefined
                 ELSE Obj(SeedMap(known, "firm", key)),
   partnerId |-> IF shape = "full" THEN Obj(SeedMap(known, "partner", key))
                 ELSE Undefined,
   used_in   |-> usedIn]

SeedEntry(att, key) ==
  [id        |-> Obj(SeedMap(att, "firm", key)),
   partnerId |-> Obj(SeedMap(att, "partner", key)),
   type      |-> key[1],
   handle    |-> key[2],
   name      |-> NoString]

\* The entry addSharedPartToReconciliation (the firm-only surface) pushes.
LegacyEntry(att, key) ==
  [id        |-> Obj(SeedMap(att, "firm", key)),
   partnerId |-> Undefined,
   type      |-> "reconciliation",
   handle    |-> key[2],
   name      |-> NoString]

ReconY == <<"reconciliationText", "tpl_y">>

AccountZ == <<"accountTemplate", "tpl_z">>

SeedUsedIn(known, pattern) ==
  CASE pattern = "none"    -> NoArray
    [] pattern = "empty"   -> Arr(<<>>)
    [] pattern = "one"     -> Arr(<<SeedEntry(known, ReconY)>>)
    [] pattern = "firm111" -> Arr(<<SeedEntry({<<"firm", 111>>}, ReconY)>>)
    [] pattern = "two"     -> Arr(<<SeedEntry(known, ReconY),
                                    SeedEntry(known, AccountZ)>>)
    [] OTHER               -> Arr(<<LegacyEntry(known, ReconY)>>)

SeedOk(known, shape, pattern) ==
  /\ shape = "bare" => known = {}
  /\ shape = "legacy" => \A k \in known : k[1] = "firm"
  /\ pattern \in {"one", "two"} => known # {}
  /\ pattern \in {"firm111", "legacy"} => <<"firm", 111>> \in known
  /\ pattern = "legacy" => shape = "legacy"

NoOp ==
  [op |-> "none", type |-> "firm", envId |-> 111, sharedPart |-> NoString,
   handle |-> NoString, templateType |-> NoString, response |-> NoResponse,
   ret |-> "undefined", lookups |-> <<>>, calls |-> <<>>, writes |-> <<>>]

Init ==
  \E known \in KnownSeeds,
     shape \in {"full", "legacy", "bare"},
     pattern \in {"none", "empty", "one", "firm111", "two", "legacy"},
     missing \in {{}, {<<"sharedPart", "sp_x">>}, {ReconY}} :
    /\ SeedOk(known, shape, pattern)
    /\ configs = [key \in Repo |->
                    SeedConfig(known, shape, key,
                               IF key[1] = "sharedPart"
                               THEN SeedUsedIn(known, pattern) ELSE NoArray)]
    /\ remote = [rk \in RemoteKeys |->
                   IF rk[3] \in missing THEN 0 ELSE SeedId(rk[1], rk[2], rk[3])]
    /\ last = NoOp @@ [before |-> configs]
    /\ opsLeft = MaxOps
    /\ bodies = [key \in Repo |-> "liquid"]
    /\ run = Idle

\* ------------------------------------------------------------------------
\* Operations.

Logged(op, type, envId, sharedPart, handle, templateType, response, r) ==
  [op |-> op, type |-> type, envId |-> envId, sharedPart |-> sharedPart,
   handle |-> handle, templateType |-> templateType,
   response |-> IF r.calls = <<>> THEN NoResponse ELSE response,
   ret |-> r.ret, lookups |-> r.lookups, calls |-> r.calls,
   writes |-> r.writes, before |-> configs]

\* The gateway answers only the calls that are made.
Answers(r, responses) == IF r.calls = <<>> THEN {NoResponse} ELSE responses

GetTemplateId ==
  \E type \in Scopes, envId \in EnvIds, key \in Repo :
    LET r == getTemplateId(configs, remote, type, envId, key[1], key[2])
    IN  /\ opsLeft > 0
        /\ configs' = r.configs
        /\ last' = Logged("getTemplateId", type, envId, NoString, key[2],
                          key[1], NoResponse, r)
        /\ opsLeft' = opsLeft - 1
        /\ UNCHANGED <<remote, bodies, run>>

AddSharedPart ==
  \E type \in Scopes, envId \in EnvIds, s \in SharedParts, t \in Templates :
   \E response \in Answers(addSharedPart(configs, remote, type, envId, s, t[2],
                                         t[1], NoResponse), AttachResponses) :
    LET r == addSharedPart(configs, remote, type, envId, s, t[2], t[1],
                           response)
    IN  /\ opsLeft > 0
        /\ configs' = r.configs
        /\ last' = Logged("addSharedPart", type, envId, s, t[2], t[1],
                          response, r)
        /\ opsLeft' = opsLeft - 1
        /\ UNCHANGED <<remote, bodies, run>>

RemoveSharedPart ==
  \E type \in Scopes, envId \in EnvIds, s \in SharedParts, t \in Templates :
   \E response \in Answers(removeSharedPart(configs, type, envId, s, t[2], t[1],
                                            NoResponse), DetachResponses) :
    LET r == removeSharedPart(configs, type, envId, s, t[2], t[1], response)
    IN  /\ opsLeft > 0
        /\ configs' = r.configs
        /\ last' = Logged("removeSharedPart", type, envId, s, t[2], t[1],
                          response, r)
        /\ opsLeft' = opsLeft - 1
        /\ UNCHANGED <<remote, bodies, run>>

\* The platform changes on its own: a template is deleted, or created
\* (again) under another id.
RemoteChange ==
  \E rk \in RemoteKeys :
      /\ opsLeft > 0
      /\ remote' = [remote EXCEPT ![rk] = IF remote[rk] # 0 THEN 0
                                         ELSE SeedId(rk[1], rk[2], rk[3]) + 500]
      /\ last' = [NoOp EXCEPT !.op = "remoteChange"] @@ [before |-> configs]
      /\ opsLeft' = opsLeft - 1
      /\ UNCHANGED <<configs, bodies, run>>

Next == GetTemplateId \/ AddSharedPart \/ RemoveSharedPart \/ RemoteChange

Spec == Init /\ [][Next]_vars

\* Sequences of discovery and attach operations, the platform changing in
\* between, from a fresh clone or a fully identified repository.
InitSeq ==
  \E known \in {{}, Scopes \X EnvIds}, pattern \in {"none", "empty"} :
    /\ configs = [key \in Repo |->
                    SeedConfig(known, "full", key,
                               IF key[1] = "sharedPart"
                               THEN SeedUsedIn(known, pattern) ELSE NoArray)]
    /\ remote = [rk \in RemoteKeys |-> SeedId(rk[1], rk[2], rk[3])]
    /\ last = NoOp @@ [before |-> configs]
    /\ opsLeft = MaxSeqOps
    /\ bodies = [key \in Repo |-> "liquid"]
    /\ run = Idle

NextSeq == GetTemplateId \/ AddSharedPart \/ RemoteChange

SpecSeq == InitSeq /\ [][NextSeq]_vars

\* Attach followed by detach, from any seeded repository whose shared part
\* is used nowhere yet.

\* Operations in one behaviour of SpecTrip.
MaxTripOps == 2

InitTrip ==
  \E known \in KnownSeeds, pattern \in {"none", "empty"} :
    /\ configs = [key \in Repo |->
                    SeedConfig(known, "full", key,
                               IF key[1] = "sharedPart"
                               THEN SeedUsedIn(known, pattern) ELSE NoArray)]
    /\ remote = [rk \in RemoteKeys |-> SeedId(rk[1], rk[2], rk[3])]
    /\ last = NoOp @@ [before |-> configs]
    /\ opsLeft = MaxTripOps
    /\ bodies = [key \in Repo |-> "liquid"]
    /\ run = Idle

NextTrip == AddSharedPart \/ RemoveSharedPart

SpecTrip == InitTrip /\ [][NextTrip]_vars

\* ------------------------------------------------------------------------
\* Publish: publishReconciliationByHandle, publishExportFileByName,
\* publishAccountTemplateByName, publishSharedPartByName.

\* Operations in one behaviour of SpecPublish.
MaxPublishOps == 1

\* An optional string argument: undefined takes the parameter's default.
NoMessage == [def |-> FALSE, str |-> NoString]

Message(str) == [def |-> TRUE, str |-> str]

\* message = "..." in the parameter lists of the four publish functions.
defaultMessage(templateType) ==
  CASE templateType = "reconciliationText" -> "Updated with the Silverfin CLI"
    [] templateType = "sharedPart" -> "Updated through the Silverfin CLI"
    [] OTHER -> "updated through the Silverfin CLI"

\* The field of response.data each publish function tests.
echoField(templateType) ==
  CASE templateType = "reconciliationText" -> "handle"
    [] templateType = "accountTemplate" -> "name_nl"
    [] OTHER -> "name"

\* fsUtils.configExists
configExists(cfgs, templateType, handle) ==
  <<templateType, handle>> \in DOMAIN cfgs

\* ReconciliationText.read / ExportFile.read / AccountTemplate.read /
\* SharedPart.read: the template object built from the files, nothing when
\* the files are missing.
readBody(bods, templateType, handle) ==
  IF bods[<<templateType, handle>>] = NoBody THEN Undefined
  ELSE Obj("text" :> bods[<<templateType, handle>>])

\* Mutant: the test of the template that was read is missing.
skipped_never(template) == FALSE

\* if (!template) return;
skipped(template) == ~template.def

\* A gateway response with a body: response.data, an object or undefined.
Response(data) == [threw |-> FALSE, def |-> TRUE, data |-> data]

RequestThrew == [threw |-> TRUE, def |-> FALSE, data |-> Undefined]

NothingReturned == [threw |-> FALSE, def |-> FALSE, data |-> Undefined]

\* What the update call of a template can bring back: an error, nothing, a
\* response without data, and data holding no identifying field or one of
\* them, with the template's handle, an empty value, or the value the
\* platform holds when it differs ("renamed").
UpdateResponses(handle) ==
  {RequestThrew, NothingReturned, Response(Undefined), Response(Obj(EmptyMap))}
  \cup { Response(Obj(f :> v)) :
           f \in {"handle", "name", "name_nl"},
           v \in {handle, NoString, "renamed"} }

\* Mutant: a config file is enough, the id for the environment is not
\* looked at.
canPublish_anyConfig(cfgs, type, envId, templateType, handle) ==
  configExists(cfgs, templateType, handle)

\* configPresent, and the config holds an id for the scope and environment.
canPublish(cfgs, type, envId, templateType, handle) ==
  /\ configExists(cfgs, templateType, handle)
  /\ idForScope(readConfig(cfgs, templateType, handle), type, envId) # 0

\* Mutant: partner or firm, the version is marked as not significant.
stamped_neverSignificant(template, type, message, templateType) ==
  SetProp(SetProp(template, "version_comment",
                  IF message.def THEN message.str
                  ELSE defaultMessage(templateType)),
          "version_significant_change", FALSE)

\* "Add API-only required fields"
stamped(template, type, message, templateType) ==
  LET t1 == SetProp(template, "version_comment",
                    IF message.def THEN message.str
                    ELSE defaultMessage(templateType))
  IN  IF type = "partner"
      THEN SetProp(t1, "version_significant_change", FALSE)
      ELSE t1

\* Mutant: any response counts as success.
updated_anyResponse(response, templateType) == response.def

\* response && response.data && response.data.handle (name, name_nl)
updated(response, templateType) ==
  /\ response.def
  /\ response.data.def
  /\ echoField(templateType) \in DOMAIN response.data.m
  /\ response.data.m[echoField(templateType)] # NoString

\* The body of the four publish functions: they differ in the kind, the
\* default message and the field of the response they test.
publishTemplate(cfgs, bods, type, envId, templateType, handle, message, response) ==
  LET key == <<templateType, handle>>
      templateId == idForScope(readConfig(cfgs, templateType, handle), type,
                               envId)
      template == readBody(bods, templateType, handle)
      call == <<[type |-> type, envId |-> envId, templateType |-> templateType,
                 templateId |-> templateId,
                 template |-> stamped(template, type, message, templateType)]>>
  IN  IF ~canPublish(cfgs, type, envId, templateType, handle)
        THEN [ret |-> "false", reads |-> <<>>, calls |-> <<>>]
      ELSE IF skipped(template)
        THEN [ret |-> "undefined", reads |-> <<key>>, calls |-> <<>>]
      ELSE IF response.threw
        THEN [ret |-> "undefined", reads |-> <<key>>, calls |-> call]
      ELSE IF updated(response, templateType)
        THEN [ret |-> "true", reads |-> <<key>>, calls |-> call]
      ELSE [ret |-> "false", reads |-> <<key>>, calls |-> call]

publishReconciliationByHandle(cfgs, bods, type, envId, handle, message, response) ==
  publishTemplate(cfgs, bods, type, envId, "reconciliationText", handle,
                  message, response)

publishExportFileByName(cfgs, bods, type, envId, name, message, response) ==
  publishTemplate(cfgs, bods, type, envId, "exportFile", name, message,
                  response)

publishAccountTemplateByName(cfgs, bods, type, envId, name, message, response) ==
  publishTemplate(cfgs, bods, type, envId, "accountTemplate", name, message,
                  response)

publishSharedPartByName(cfgs, bods, type, envId, name, message, response) ==
  publishTemplate(cfgs, bods, type, envId, "sharedPart", name, message,
                  response)

\* The messages a caller passes: none, an empty one, a release note.
Messages == {NoMessage, Message(NoString), Message("release 2")}

\* Repositories for publish: some templates have no config file yet, some
\* have no text files; the ids the configs hold are those of KnownSeeds.
InitPublish ==
  \E known \in KnownSeeds,
     shape \in {"full", "legacy", "bare"},
     present \in {Repo, Repo \ {ReconY}, {ReconY}, {}},
     written \in {Repo, {<<"exportFile", "tpl_y">>, AccountZ}} :
    /\ SeedOk(known, shape, "none")
    /\ configs = [key \in present |-> SeedConfig(known, shape, key, NoArray)]
    /\ remote = [rk \in RemoteKeys |-> SeedId(rk[1], rk[2], rk[3])]
    /\ bodies = [key \in Repo |-> IF key \in written THEN "liquid" ELSE NoBody]
    /\ last = NoOp @@ [before |-> configs]
    /\ opsLeft = MaxPublishOps
    /\ run = Idle

PublishLogged(op, type, envId, key, message, response, r) ==
  [op |-> op, type |-> type, envId |-> envId, sharedPart |-> NoString,
   handle |-> key[2], templateType |-> key[1], message |-> message,
   response |-> IF r.calls = <<>> THEN NothingReturned ELSE response,
   ret |-> r.ret, reads |-> r.reads, calls |-> r.calls, lookups |-> <<>>,
   before |-> configs]

\* The gateway answers only the update calls that are made.
UpdateAnswers(r, handle) ==
  IF r.calls = <<>> THEN {NothingReturned} ELSE UpdateResponses(handle)

\* One publish call has run with result r.
PublishStep(op, key, type, envId, message, response, r) ==
  /\ opsLeft > 0
  /\ last' = PublishLogged(op, type, envId, key, message, response, r)
  /\ opsLeft' = opsLeft - 1
  /\ UNCHANGED <<configs, remote, bodies, run>>

PublishReconciliationByHandle ==
  \E type \in Scopes, envId \in EnvIds, message \in Messages,
     key \in {k \in Repo : k[1] = "reconciliationText"} :
   \E response \in UpdateAnswers(publishReconciliationByHandle(configs, bodies, type, envId, key[2],
                                   message, NothingReturned), key[2]) :
    PublishStep("publishReconciliationByHandle", key, type, envId, message, response,
                publishReconciliationByHandle(configs, bodies, type, envId, key[2], message, response))

PublishExportFileByName ==
  \E type \in Scopes, envId \in EnvIds, message \in Messages,
     key \in {k \in Repo : k[1] = "exportFile"} :
   \E response \in UpdateAnswers(publishExportFileByName(configs, bodies, type, envId, key[2],
                                   message, NothingReturned), key[2]) :
    PublishStep("publishExportFileByName", key, type, envId, message, response,
                publishExportFileByName(configs, bodies, type, envId, key[2], message, response))

PublishAccountTemplateByName ==
  \E type \in Scopes, envId \in EnvIds, message \in Messages,
     key \in {k \in Repo : k[1] = "accountTemplate"} :
   \E response \in UpdateAnswers(publishAccountTemplateByName(configs, bodies, type, envId, key[2],
                                   message, NothingReturned), key[2]) :
    PublishStep("publishAccountTemplateByName", key, type, envId, message, response,
                publishAccountTemplateByName(configs, bodies, type, envId, key[2], message, response))

PublishSharedPartByName ==
  \E type \in Scopes, envId \in EnvIds, message \in Messages,
     key \in {k \in Repo : k[1] = "sharedPart"} :
   \E response \in UpdateAnswers(publishSharedPartByName(configs, bodies, type, envId, key[2],
                                   message, NothingReturned), key[2]) :
    PublishStep("publishSharedPartByName", key, type, envId, message, response,
                publishSharedPartByName(configs, bodies, type, envId, key[2], message, response))

NextPublish ==
  \/ PublishReconciliationByHandle
  \/ PublishExportFileByName
  \/ PublishAccountTemplateByName
  \/ PublishSharedPartByName

SpecPublish == InitPublish /\ [][NextPublish]_vars

\* ------------------------------------------------------------------------
\* Create: newReconciliation, newExportFile, newAccountTemplate,
\* newSharedPart. Creation is on firm environments only.

\* Operations in one behaviour of SpecCreate.
MaxCreateOps == 2

\* template.version_comment of the four create functions.
createdComment(templateType) ==
  CASE templateType = "reconciliationText" -> "Created with the Silverfin CLI"
    [] templateType = "sharedPart" -> "Created through the API"
    [] OTHER -> "Created through the Silverfin CLI"

\* A gateway response with a status and, in data, the id and the name the
\* platform gave the template (name_nl for account templates).
CreateResponse(status, data) ==
  [threw |-> FALSE, def |-> TRUE, status |-> status, data |-> data]

CreateThrew ==
  [threw |-> TRUE, def |-> FALSE, status |-> NoResponse, data |-> Undefined]

NothingCreated ==
  [threw |-> FALSE, def |-> FALSE, status |-> NoResponse, data |-> Undefined]

\* The id the platform gives a template created in an environment.
NewId(firmId, key) == SeedId("firm", firmId, key) + 500

\* The name under which the platform reports a created account template
\* when it is not the name of the template's folder.
OtherName == "tpl_z (nl)"

\* What a create call can bring back: an error, nothing, a rejection, or a
\* 201 with the new template; for an account template, name_nl is the
\* folder's name or another one.
CreateResponses(firmId, key) ==
  {CreateThrew, NothingCreated, CreateResponse(422, Undefined)}
  \cup { CreateResponse(Created, Obj("id" :> NewId(firmId, key)
                                      @@ echoField(key[1]) :> n)) :
           n \in IF key[1] = "accountTemplate" THEN {key[2], OtherName}
                 ELSE {key[2]} }

\* ReconciliationText.updateTemplateId and the like: the id is stored in the
\* firm id map of the handle's config, which is created when missing.
updateTemplateId(cfgs, templateType, firmId, handle, id) ==
  LET key == <<templateType, handle>>
      config == IF key \in DOMAIN cfgs THEN cfgs[key]
                ELSE [id |-> Obj(EmptyMap), partnerId |-> Obj(EmptyMap),
                      used_in |-> NoArray]
      withId == [config EXCEPT !.id = SetProp(config.id, firmId, id)]
  IN  [k \in (DOMAIN cfgs) \cup {key} |-> IF k = key THEN withId ELSE cfgs[k]]

\* Mutant: the lookup before the creation is ignored.
alreadyExists_never(existingTemplate) == FALSE

\* if (existingTemplate)
alreadyExists(existingTemplate) == existingTemplate # 0

\* The handle under which the new id is stored: the one passed to the
\* function, but response.data.name_nl in newAccountTemplate.
storedUnder(templateType, handle, response) ==
  IF templateType = "accountTemplate" THEN response.data.m["name_nl"]
  ELSE handle

\* The body of the four create functions: they differ in the kind, the
\* comment and the handle the id is stored under.
newTemplate(cfgs, rem, bods, firmId, templateType, handle, response) ==
  LET key == <<templateType, handle>>
      existingTemplate == findTemplate(rem, "firm", firmId, templateType, handle)
      template == readBody(bods, templateType, handle)
      call == <<[type |-> "firm", envId |-> firmId,
                 templateType |-> templateType,
                 template |-> SetProp(template, "version_comment",
                                      createdComment(templateType))]>>
      \* response.data.name_nl is read before the response is tested
      threw == \/ response.threw
               \/ templateType = "accountTemplate"
                    /\ (~response.def \/ ~response.data.def)
      created == response.def /\ response.status = Created
      target == <<templateType, storedUnder(templateType, handle, response)>>
      unchanged == [ret |-> "undefined", configs |-> cfgs, remote |-> rem,
                    lookups |-> <<key>>, reads |-> <<>>, calls |-> <<>>,
                    writes |-> <<>>]
  IN  IF alreadyExists(existingTemplate)
        THEN unchanged
      ELSE IF skipped(template)
        THEN [unchanged EXCEPT !.reads = <<key>>]
      ELSE IF ~created \/ threw
        THEN [unchanged EXCEPT !.reads = <<key>>, !.calls = call]
      ELSE [ret     |-> "undefined",
            configs |-> updateTemplateId(cfgs, templateType, firmId, target[2],
                                         response.data.m["id"]),
            remote  |-> [rem EXCEPT ![<<"firm", firmId, key>>] =
                                       response.data.m["id"]],
            lookups |-> <<key>>,
            reads   |-> <<key>>,
            calls   |-> call,
            writes  |-> <<target>>]

newReconciliation(cfgs, rem, bods, firmId, handle, response) ==
  newTemplate(cfgs, rem, bods, firmId, "reconciliationText", handle, response)

newExportFile(cfgs, rem, bods, firmId, name, response) ==
  newTemplate(cfgs, rem, bods, firmId, "exportFile", name, response)

newAccountTemplate(cfgs, rem, bods, firmId, name, response) ==
  newTemplate(cfgs, rem, bods, firmId, "accountTemplate", name, response)

newSharedPart(cfgs, rem, bods, firmId, name, response) ==
  newTemplate(cfgs, rem, bods, firmId, "sharedPart", name, response)

\* Repositories for create: written locally, with or without config files,
\* the platform holding none, one or all of the templates.
InitCreate ==
  \E known \in {{}, {<<"firm", 111>>}},
     present \in {Repo, {}},
     onPlatform \in {{}, {ReconY}, Repo},
     written \in {Repo, Repo \ {ReconY}} :
    /\ configs = [key \in present |-> SeedConfig(known, "full", key, NoArray)]
    /\ remote = [rk \in RemoteKeys |->
                   IF rk[3] \in onPlatform THEN SeedId(rk[1], rk[2], rk[3])
                   ELSE 0]
    /\ bodies = [key \in Repo |-> IF key \in written THEN "liquid" ELSE NoBody]
    /\ last = NoOp @@ [before |-> configs]
    /\ opsLeft = MaxCreateOps
    /\ run = Idle

\* The gateway answers only the create calls that are made.
CreateAnswers(r, firmId, key) ==
  IF r.calls = <<>> THEN {NothingCreated} ELSE CreateResponses(firmId, key)

\* One create call has run with result r.
CreateStep(op, key, firmId, response, r) ==
  /\ opsLeft > 0
  /\ configs' = r.configs
  /\ remote' = r.remote
  /\ last' = [op |-> op, type |-> "firm", envId |-> firmId,
              sharedPart |-> NoString, handle |-> key[2],
              templateType |-> key[1],
              existing |-> findTemplate(remote, "firm", firmId, key[1], key[2]),
              response |-> IF r.calls = <<>> THEN NothingCreated ELSE response,
              ret |-> r.ret, lookups |-> r.lookups, reads |-> r.reads,
              calls |-> r.calls, writes |-> r.writes, before |-> configs]
  /\ opsLeft' = opsLeft - 1
  /\ UNCHANGED <<bodies, run>>

NewReconciliation ==
  \E firmId \in EnvIds, key \in {k \in Repo : k[1] = "reconciliationText"} :
   \E response \in CreateAnswers(newReconciliation(configs, remote, bodies, firmId, key[2],
                                   NothingCreated), firmId, key) :
    CreateStep("newReconciliation", key, firmId, response,
               newReconciliation(configs, remote, bodies, firmId, key[2], response))

NewExportFile ==
  \E firmId \in EnvIds, key \in {k \in Repo : k[1] = "exportFile"} :
   \E response \in CreateAnswers(newExportFile(configs, remote, bodies, firmId, key[2],
                                   NothingCreated), firmId, key) :
    CreateStep("newExportFile", key, firmId, response,
               newExportFile(configs, remote, bodies, firmId, key[2], response))

NewAccountTemplate ==
  \E firmId \in EnvIds, key \in {k \in Repo : k[1] = "accountTemplate"} :
   \E response \in CreateAnswers(newAccountTemplate(configs, remote, bodies, firmId, key[2],
                                   NothingCreated), firmId, key) :
    CreateStep("newAccountTemplate", key, firmId, response,
               newAccountTemplate(configs, remote, bodies, firmId, key[2], response))

NewSharedPart ==
  \E firmId \in EnvIds, key \in {k \in Repo : k[1] = "sharedPart"} :
   \E response \in CreateAnswers(newSharedPart(configs, remote, bodies, firmId, key[2],
                                   NothingCreated), firmId, key) :
    CreateStep("newSharedPart", key, firmId, response,
               newSharedPart(configs, remote, bodies, firmId, key[2], response))

NextCreate ==
  NewReconciliation \/ NewExportFile \/ NewAccountTemplate \/ NewSharedPart

SpecCreate == InitCreate /\ [][NextCreate]_vars

\* Publish and create in one specification: the repositories of both, and
\* the operations of both.
InitWrite == InitPublish \/ InitCreate

NextWrite == NextPublish \/ NextCreate

SpecWrite == InitWrite /\ [][NextWrite]_vars

\* ------------------------------------------------------------------------
\* Import: fetchAllReconciliations, fetchAllExportFiles,
\* fetchAllAccountTemplates, fetchAllSharedParts. The page loop and the
\* callbacks of the records run concurrently: an import is a sequence of
\* steps, one per answer that arrives from the platform.

\* Records the platform holds of the kind that is imported.
MaxRecords == 3

\* Records the platform puts on one page.
PageSizes == {1, 2}

\* The handle of the i-th record of the platform.
Handle(i) == "t" \o ToString(i)

\* The platform's pages of n records, pageSize on a page; every page after
\* them is empty.
Pages(n, pageSize) ==
  [p \in 1..((n + pageSize - 1) \div pageSize) |->
     [j \in 1..(IF n - (p - 1) * pageSize < pageSize
                THEN n - (p - 1) * pageSize ELSE pageSize) |->
        (p - 1) * pageSize + j]]

\* SF.readReconciliationTexts / readExportFiles / readAccountTemplates /
\* readSharedParts: the records of a page.
readPage(pages, page) == IF page \in 1..Len(pages) THEN pages[page] ELSE <<>>

Range(seq) == { seq[i] : i \in 1..Len(seq) }

\* ReconciliationText.save and the like: the text files are written and the
\* id is stored in the config, which is created when missing.
save(cfgs, bods, type, envId, templateType, i) ==
  LET key == <<templateType, Handle(i)>>
      config == IF key \in DOMAIN cfgs THEN cfgs[key]
                ELSE [id |-> Undefined, partnerId |-> Undefined,
                      used_in |-> NoArray]
      saved == withFoundId(config, type, envId, i)
  IN  [configs |-> [k \in (DOMAIN cfgs) \cup {key} |->
                      IF k = key THEN saved ELSE cfgs[k]],
       bodies  |-> [k \in (DOMAIN bods) \cup {key} |->
                      IF k = key THEN "liquid" ELSE bods[k]]]

\* The import that fetchAll<Kind>(type, envId) starts: page 1 is requested.
Started(kind, type, envId, onRejection) ==
  [kind        |-> kind,
   type        |-> type,
   envId       |-> envId,
   onRejection |-> onRejection, \* an unhandled rejection ends the process
                                \* ("throw", Node 15 and later) or not ("warn")
   requested   |-> <<1>>,       \* the pages requested, in order
   awaiting    |-> 1,           \* the page whose answer is awaited, 0: none
   inFlight    |-> {},          \* records whose callback awaits an answer
   failed      |-> {},          \* records whose callback failed
   invoked     |-> {},          \* records whose save routine was called
   reported    |-> FALSE,       \* "No ... found" was logged
   resolved    |-> FALSE,       \* the promise fetchAll returned is resolved
   threw       |-> FALSE,       \* fetchAll itself threw
   alive       |-> TRUE]        \* the process has not exited

\* The kinds whose callback awaits the record (a save, or a fetch by id).
awaitsRecord(kind) == kind # "accountTemplate"

\* The kinds whose page loop awaits the recursive call for the next page:
\* "await fetchAllSharedParts(type, envId, page + 1)"; the other three call
\* it without await and return.
awaitsNextPage(kind) == kind = "sharedPart"

\* The kinds whose callback ends the process when the record fails:
\* fetchSharedPartById and fetchExportFileById call process.exit(1).
exitsOnFailure(kind) == kind \in {"sharedPart", "exportFile"}

\* A fresh repository, and a platform with up to MaxRecords records of
\* which some cannot be fetched or saved.
InitImport ==
  \E n \in 0..MaxRecords, pageSize \in PageSizes :
   \E broken \in SUBSET (1..n) :
    /\ remote = [pages |-> Pages(n, pageSize), broken |-> broken]
    /\ configs = EmptyMap
    /\ bodies = EmptyMap
    /\ last = NoOp @@ [before |-> configs]
    /\ opsLeft = 0
    /\ run = Idle

StartImport(kind, type, envId, onRejection) ==
  /\ run = Idle
  /\ run' = Started(kind, type, envId, onRejection)
  /\ UNCHANGED <<configs, remote, last, opsLeft, bodies>>

FetchAllReconciliations ==
  \E type \in Scopes, envId \in EnvIds, onRejection \in {"throw", "warn"} :
    StartImport("reconciliationText", type, envId, onRejection)

FetchAllExportFiles ==
  \E type \in Scopes, envId \in EnvIds, onRejection \in {"throw", "warn"} :
    StartImport("exportFile", type, envId, onRejection)

FetchAllAccountTemplates ==
  \E type \in Scopes, envId \in EnvIds, onRejection \in {"throw", "warn"} :
    StartImport("accountTemplate", type, envId, onRejection)

FetchAllSharedParts ==
  \E type \in Scopes, envId \in EnvIds, onRejection \in {"throw", "warn"} :
    StartImport("sharedPart", type, envId, onRejection)

\* The awaited page arrives. An empty page ends the page loop (the message
\* of fetchAllExportFiles for an empty first page reads firmId, which is
\* not defined). Otherwise forEach starts a callback per record, and the
\* next page is requested without waiting for them; the callbacks of
\* fetchAllAccountTemplates read firmId and are rejected at once. The
\* promise of the first call is resolved when that call returns: with the
\* empty page where the recursive call is awaited, else once page 1 is
\* handled and page 2 requested.
PageArrives ==
  LET page == run.awaiting
      records == Range(readPage(remote.pages, page))
  IN  /\ run # Idle /\ run.alive /\ page # 0
      /\ run' =
           IF records = {}
           THEN [run EXCEPT !.awaiting = 0,
                            !.threw = (run.kind = "exportFile" /\ page = 1),
                            !.reported = (run.kind # "exportFile" /\ page = 1),
                            !.resolved = @ \/ (run.kind # "exportFile" /\ page = 1)
                                           \/ awaitsNextPage(run.kind)]
           ELSE [run EXCEPT
                   !.awaiting = page + 1,
                   !.requested = Append(@, page + 1),
                   !.resolved = @ \/ ~awaitsNextPage(run.kind),
                   !.invoked = IF awaitsRecord(run.kind) THEN @ \cup records
                               ELSE @,
                   !.inFlight = IF awaitsRecord(run.kind) THEN @ \cup records
                                ELSE @,
                   !.failed = IF awaitsRecord(run.kind) THEN @
                              ELSE @ \cup records,
                   !.alive = awaitsRecord(run.kind)
                               \/ run.onRejection = "warn"]
      /\ UNCHANGED <<configs, remote, last, opsLeft, bodies>>

\* The callback of a record gets its answer and saves the template.
RecordImported ==
  /\ run # Idle
  /\ \E i \in run.inFlight \ remote.broken :
    LET saved == save(configs, bodies, run.type, run.envId, run.kind, i)
    IN  /\ run.alive
        /\ configs' = saved.configs
        /\ bodies' = saved.bodies
        /\ run' = [run EXCEPT !.inFlight = @ \ {i}]
        /\ UNCHANGED <<remote, last, opsLeft>>

\* The fetch or the save of a record fails: the error is logged, and in
\* fetchSharedPartById and fetchExportFileById the process exits.
RecordFails ==
  /\ run # Idle
  /\ \E i \in run.inFlight \cap remote.broken :
    /\ run.alive
    /\ run' = [run EXCEPT !.inFlight = @ \ {i},
                          !.failed = @ \cup {i},
                          !.alive = ~exitsOnFailure(run.kind)]
    /\ UNCHANGED <<configs, remote, last, opsLeft, bodies>>

NextImport ==
  \/ FetchAllReconciliations
  \/ FetchAllExportFiles
  \/ FetchAllAccountTemplates
  \/ FetchAllSharedParts
  \/ PageArrives
  \/ RecordImported
  \/ RecordFails

SpecImport == InitImport /\ [][NextImport]_vars

\* ------------------------------------------------------------------------
\* addAllSharedParts

\* Operations in one behaviour of SpecAttachAll.
MaxAttachAllOps == 1

\* fsUtils.getAllTemplatesOfAType("sharedPart"): the shared parts of the
\* repository, in the order of the listing.
AllSharedParts == <<"sp_w", "sp_x">>

\* fs.existsSync(`./${fsUtils.FOLDERS[template.type]}/${handle}`): a type
\* that is none of the kinds has no folder.
folderExists(bods, templateType, handle) ==
  /\ templateType \in TemplateTypes \cup {"sharedPart"}
  /\ <<templateType, handle>> \in DOMAIN bods
  /\ bods[<<templateType, handle>>] # NoBody

\* template.handle || template.name
handleOrName(template) ==
  IF template.handle # NoString THEN template.handle ELSE template.name

\* The shared part addSharedPart is called for: sharedPartConfig.name.
attachedAs(sharedPartName, sharedPartConfig) == sharedPartConfig.name

\* catch (error) { errorUtils.errorHandler(error); return false; } of
\* addSharedPart was entered, and the handler ended the command.
exitedIn(r) == "caught" \in DOMAIN r /\ errorHandlerExits

\* The loop over the used_in entries of one shared part, from entry k on;
\* log.calls collects the arguments of the addSharedPart calls, log.gateway
\* the gateway calls they make (lookups and attach calls); alive is whether
\* the command still runs.
RECURSIVE attachEntries(_, _, _, _, _, _, _, _, _, _)
attachEntries(cfgs, rem, bods, type, envId, response, name, entries, k, log) ==
  IF k > Len(entries)
  THEN [configs |-> cfgs, calls |-> log.calls, gateway |-> log.gateway,
        alive |-> TRUE]
  ELSE LET template == entries[k]
           handle == handleOrName(template)
           called == Append(log.calls, <<name, handle, template.type>>)
       IN  IF template.handle = NoString /\ template.name = NoString
             THEN attachEntries(cfgs, rem, bods, type, envId, response, name,
                                entries, k + 1, log)
           ELSE IF ~folderExists(bods, template.type, handle)
             THEN attachEntries(cfgs, rem, bods, type, envId, response, name,
                                entries, k + 1, log)
           ELSE \* r: what the one call of addSharedPart for the entry gives
                CHOOSE done \in
                  { IF exitedIn(r)
                    THEN [configs |-> r.configs, calls |-> called,
                          gateway |-> log.gateway \o r.lookups \o r.calls,
                          alive |-> FALSE]
                    ELSE attachEntries(
                           r.configs, rem, bods, type, envId, response, name,
                           entries, k + 1,
                           [calls   |-> called,
                            gateway |-> log.gateway \o r.lookups \o r.calls]) :
                    r \in {addSharedPart(cfgs, rem, type, envId, name, handle,
                                         template.type, response)} } : TRUE

\* The loop over the shared parts, from the n-th of the listing on. Every
\* gateway attach call of the run gets the same answer.
RECURSIVE addAllSharedPartsFrom(_, _, _, _, _, _, _, _)
addAllSharedPartsFrom(cfgs, rem, bods, type, envId, response, n, log) ==
  IF n > Len(AllSharedParts)
  THEN [configs |-> cfgs, calls |-> log.calls, gateway |-> log.gateway,
        alive |-> TRUE]
  ELSE LET sharedPartName == AllSharedParts[n]
           sharedPartConfig == readConfig(cfgs, "sharedPart", sharedPartName)
           done == attachEntries(cfgs, rem, bods, type, envId, response,
                                 attachedAs(sharedPartName, sharedPartConfig),
                                 sharedPartConfig.used_in.list, 1, log)
       IN  IF ~sharedPartConfig.used_in.def
             THEN addAllSharedPartsFrom(cfgs, rem, bods, type, envId, response,
                                        n + 1, log)
           ELSE IF ~done.alive
             THEN done
           ELSE addAllSharedPartsFrom(done.configs, rem, bods, type, envId,
                                      response, n + 1,
                                      [calls |-> done.calls,
                                       gateway |-> done.gateway])

\* Mutant: with force the entries are dropped and nothing is attached.
addAllSharedParts_forceSkips(cfgs, rem, bods, type, envId, force, response) ==
  IF force
  THEN [configs |-> cfgs, calls |-> <<>>, gateway |-> <<>>, alive |-> TRUE]
  ELSE addAllSharedPartsFrom(cfgs, rem, bods, type, envId, response, 1,
                             [calls |-> <<>>, gateway |-> <<>>])

\* addAllSharedParts(type, envId, force = false): the body does not read
\* force.
addAllSharedParts(cfgs, rem, bods, type, envId, force, response) ==
  addAllSharedPartsFrom(cfgs, rem, bods, type, envId, response, 1,
                        [calls |-> <<>>, gateway |-> <<>>])

\* A Usage Entry stored under the name instead of the handle, and one with
\* neither.
NamedEntry(att, key) == [SeedEntry(att, key) EXCEPT !.handle = NoString,
                                                    !.name = key[2]]

NamelessEntry(att, key) == [SeedEntry(att, key) EXCEPT !.handle = NoString]

AttachAllUsedIn(known, pattern) ==
  CASE pattern = "none"     -> NoArray
    [] pattern = "empty"    -> Arr(<<>>)
    [] pattern = "one"      -> Arr(<<SeedEntry(known, ReconY)>>)
    [] pattern = "two"      -> Arr(<<SeedEntry(known, ReconY),
                                     SeedEntry(known, AccountZ)>>)
    [] pattern = "byName"   -> Arr(<<NamelessEntry(known, ReconY),
                                     NamedEntry(known, AccountZ)>>)
    [] OTHER                -> Arr(<<LegacyEntry(known, ReconY),
                                     SeedEntry(known, <<"exportFile", "tpl_y">>)>>)

AttachAllRepo == Templates \cup { <<"sharedPart", AllSharedParts[n]>> :
                                    n \in 1..Len(AllSharedParts) }

\* Repositories for addAllSharedParts: two shared parts with their used_in
\* lists; the config of sp_x holds its own name, another shared part's
\* name, or none; the folder of a template may be missing.
InitAttachAll ==
  \E known \in {{}, Scopes \X EnvIds},
     nameOfX \in {"sp_x", "sp_w", NoString},
     patternX \in {"none", "empty", "one", "two", "byName", "legacy"},
     patternW \in {"empty", "one"},
     noFolder \in {{}, {ReconY}} :
    /\ configs =
         [key \in AttachAllRepo |->
            IF key[1] # "sharedPart" THEN SeedConfig(known, "full", key, NoArray)
            ELSE SeedConfig(known, "full", <<"sharedPart", "sp_x">>,
                            AttachAllUsedIn(known, IF key[2] = "sp_x"
                                                   THEN patternX ELSE patternW))
                 @@ [name |-> IF key[2] = "sp_x" THEN nameOfX ELSE key[2]]]
    /\ remote = [rk \in Scopes \X EnvIds \X AttachAllRepo |->
                   SeedId(rk[1], rk[2], rk[3])]
    /\ bodies = [key \in AttachAllRepo \ noFolder |-> "liquid"]
    /\ last = NoOp @@ [before |-> configs]
    /\ opsLeft = MaxAttachAllOps
    /\ run = Idle

AddAllSharedParts ==
  \E type \in Scopes, envId \in EnvIds, force \in BOOLEAN,
     response \in {Threw, NoResponse, Created} :
    LET r == addAllSharedParts(configs, remote, bodies, type, envId, force,
                               response)
    IN  /\ opsLeft > 0
        /\ configs' = r.configs
        /\ last' = [op |-> "addAllSharedParts", type |-> type, envId |-> envId,
                    force |-> force, response |-> response,
                    calls |-> r.calls, gateway |-> r.gateway,
                    alive |-> r.alive, before |-> configs]
        /\ opsLeft' = opsLeft - 1
        /\ UNCHANGED <<remote, bodies, run>>

NextAttachAll == AddAllSharedParts

SpecAttachAll == InitAttachAll /\ [][NextAttachAll]_vars

\* ------------------------------------------------------------------------
\* The bulk operations, step by step: addAllSharedParts, publishAll<Kind>,
\* newAll<Kind> and getAllTemplatesId are for...of loops whose body awaits
\* one per-item operation. What the per-item operation does is modelled
\* above; here an item is what its operation comes to.

\* Items of one bulk run.
MaxItems == 3

PublishAlls ==
  {"publishAllReconciliations", "publishAllExportFiles",
   "publishAllAccountTemplates", "publishAllSharedParts"}

NewAlls ==
  {"newAllReconciliations", "newAllExportFiles", "newAllAccountTemplates",
   "newAllSharedParts"}

\* "continue": the loop body skips the item without calling the per-item
\* operation; "true", "false": the operation returned (false: missing id,
\* handle not found, failure response); "raised": its gateway call raised.
ItemOutcomes == {"continue", "true", "false", "raised"}

\* The newAll<Kind> loops have no continue.
hasContinue(op) == op \notin NewAlls

ItemLists(op) ==
  UNION { [1..n -> IF hasContinue(op) THEN ItemOutcomes
                   ELSE ItemOutcomes \ {"continue"}] : n \in 1..MaxItems }

\* Mutant: the per-item operation is not awaited.
awaited_fireAndForget(inFlight) == TRUE

\* await <per-item operation>(...): the loop goes on when the promise of
\* the operation it started has settled.
awaited(inFlight) == inFlight = {}

\* The per-item operations catch what their gateway call raises themselves;
\* getTemplateId has no try, the catch of getAllTemplatesId is around the
\* loop.
leavesLoop(op, outcome) == op = "getAllTemplatesId" /\ outcome = "raised"

\* Every raised error ends in a catch that calls errorUtils.errorHandler.
aliveAfter(outcome) == outcome = "raised" => ~errorHandlerExits

Bulk(op, items) ==
  [kind |-> "bulk", op |-> op, items |-> items, next |-> 1,
   inFlight |-> {}, attempted |-> {}, alive |-> TRUE]

InitBulk ==
  /\ configs = EmptyMap
  /\ remote = EmptyMap
  /\ bodies = EmptyMap
  /\ last = NoOp @@ [before |-> configs]
  /\ opsLeft = 0
  /\ run = Idle

StartBulk(op) ==
  /\ run = Idle
  /\ \E items \in ItemLists(op) : run' = Bulk(op, items)
  /\ UNCHANGED <<configs, remote, last, opsLeft, bodies>>

AddAllSharedPartsStarts == StartBulk("addAllSharedParts")

PublishAllStarts == \E op \in PublishAlls : StartBulk(op)

NewAllStarts == \E op \in NewAlls : StartBulk(op)

GetAllTemplatesIdStarts == StartBulk("getAllTemplatesId")

\* One turn of the for...of loop: the item is skipped, or its operation is
\* started.
LoopTurn ==
  /\ run # Idle
  /\ run.alive /\ run.next <= Len(run.items)
  /\ awaited(run.inFlight)
  /\ run' = IF run.items[run.next] = "continue"
            THEN [run EXCEPT !.next = @ + 1]
            ELSE [run EXCEPT !.next = @ + 1,
                             !.inFlight = @ \cup {run.next},
                             !.attempted = @ \cup {run.next}]
  /\ UNCHANGED <<configs, remote, last, opsLeft, bodies>>

\* The operation of an item settles.
ItemSettles ==
  /\ run # Idle
  /\ run.alive
  /\ \E i \in run.inFlight :
       run' = [run EXCEPT
                 !.inFlight = @ \ {i},
                 !.alive = aliveAfter(run.items[i]),
                 !.next = IF leavesLoop(run.op, run.items[i])
                          THEN Len(run.items) + 1 ELSE @]
  /\ UNCHANGED <<configs, remote, last, opsLeft, bodies>>

NextBulk ==
  \/ AddAllSharedPartsStarts
  \/ PublishAllStarts
  \/ NewAllStarts
  \/ GetAllTemplatesIdStarts
  \/ LoopTurn
  \/ ItemSettles

SpecBulk == InitBulk /\ [][NextBulk]_vars

\* ------------------------------------------------------------------------
\* Two attach / detach operations on one shared part, started without
\* awaiting each other. An operation runs from its call to the await of the
\* gateway call (the Config Records are read there), and from the answer
\* to its return (the records are written there). The ids are known
\* locally in these runs: no discovery.

Procs == {1, 2}

NotStarted == [pc |-> "idle"]

\* Mutant: the shared part's Config Record is read again after the await.
heldAcrossAwait_reread(readBefore, current) == current

\* let sharedPartConfig = await fsUtils.readConfig(...) before the gateway
\* call: the object the details are stored into after the call is the one
\* read before it.
heldAcrossAwait(readBefore, current) == readBefore

InitRace ==
  \E pattern \in {"empty", "one", "two"} :
    /\ configs = [key \in Repo |->
                    SeedConfig(Scopes \X EnvIds, "full", key,
                               IF key[1] = "sharedPart"
                               THEN SeedUsedIn(Scopes \X EnvIds, pattern)
                               ELSE NoArray)]
    /\ remote = [rk \in RemoteKeys |-> SeedId(rk[1], rk[2], rk[3])]
    /\ bodies = [key \in Repo |-> "liquid"]
    /\ last = NoOp @@ [before |-> configs]
    /\ opsLeft = 0
    /\ run = [kind |-> "race", procs |-> [p \in Procs |-> NotStarted],
              order |-> <<>>]

\* From the call to the await of the gateway call.
Begins(p, op, type, envId, s, t) ==
  LET templateConfig == readConfig(configs, t[1], t[2])
      sharedPartConfig == readConfig(configs, "sharedPart", s)
  IN  /\ run.kind = "race"
      /\ run.procs[p].pc = "idle"
      /\ idForScope(templateConfig, type, envId) # 0
      /\ idForScope(sharedPartConfig, type, envId) # 0
      /\ op = "addSharedPart" => ~unsupportedOnPartner(type, t[1])
      /\ run' = [run EXCEPT !.procs[p] =
                   [pc |-> "awaiting", op |-> op, type |-> type,
                    envId |-> envId, sharedPart |-> s, handle |-> t[2],
                    templateType |-> t[1],
                    templateConfig |-> templateConfig,
                    sharedPartConfig |-> sharedPartConfig,
                    seen |-> Len(run.order),
                    response |-> NoResponse, wrote |-> FALSE,
                    stale |-> FALSE]]
      /\ UNCHANGED <<configs, remote, last, opsLeft, bodies>>

AddSharedPartBegins ==
  \E p \in Procs, type \in Scopes, envId \in EnvIds, s \in SharedParts,
     t \in Templates :
    Begins(p, "addSharedPart", type, envId, s, t)

RemoveSharedPartBegins ==
  \E p \in Procs, type \in Scopes, envId \in EnvIds, s \in SharedParts,
     t \in Templates :
    Begins(p, "removeSharedPart", type, envId, s, t)

\* The process returned; when it wrote, the records it read were stale if
\* the other process wrote after it had read them.
Returned(p, response, wrote) ==
  [run EXCEPT !.procs[p].pc = "done",
              !.procs[p].response = response,
              !.procs[p].wrote = wrote,
              !.procs[p].stale = wrote /\ Len(run.order) > run.procs[p].seen,
              !.order = IF wrote THEN Append(@, p) ELSE @]

\* From the answer of the gateway's attach call to the return.
AddSharedPartReturns ==
  \E p \in Procs, response \in AttachResponses :
    /\ run.kind = "race"
    /\ run.procs[p].pc = "awaiting"
    /\ run.procs[p].op = "addSharedPart"
    /\ LET me == run.procs[p]
           sKey == <<"sharedPart", me.sharedPart>>
           stored == storeDetails(
                       heldAcrossAwait(me.sharedPartConfig, configs[sKey]),
                       me.templateConfig, me.type, me.envId, me.handle,
                       me.templateType)
           saves == ~(response = Threw \/ attachFailed(response)
                        \/ stored.threw)
       IN  /\ configs' =
                IF saves
                THEN writeConfig(
                       writeConfig(configs, me.templateType, me.handle,
                                   me.templateConfig),
                       "sharedPart", me.sharedPart, stored.config)
                ELSE configs
           /\ run' = Returned(p, response, saves)
    /\ UNCHANGED <<remote, last, opsLeft, bodies>>

\* From the answer of the gateway's detach call to the return.
RemoveSharedPartReturns ==
  \E p \in Procs, response \in DetachResponses :
    /\ run.kind = "race"
    /\ run.procs[p].pc = "awaiting"
    /\ run.procs[p].op = "removeSharedPart"
    /\ LET me == run.procs[p]
           sKey == <<"sharedPart", me.sharedPart>>
           dropped == dropReference(
                        heldAcrossAwait(me.sharedPartConfig, configs[sKey]),
                        me.type, me.envId, me.handle,
                        idForScope(me.templateConfig, me.type, me.envId))
           saves == ~(response = Threw \/ dropped.threw \/ ~dropped.written)
       IN  /\ configs' =
                IF saves
                THEN writeConfig(configs, "sharedPart", me.sharedPart,
                                 dropped.config)
                ELSE configs
           /\ run' = Returned(p, response, saves)
    /\ UNCHANGED <<remote, last, opsLeft, bodies>>

NextRace ==
  \/ AddSharedPartBegins
  \/ RemoveSharedPartBegins
  \/ AddSharedPartReturns
  \/ RemoveSharedPartReturns

SpecRace == InitRace /\ [][NextRace]_vars

\* ------------------------------------------------------------------------
\* getAllTemplatesId

\* Operations in one behaviour of SpecSweep.
MaxSweepOps == 1

\* Templates of the kind in the repository.
MaxSwept == 2

\* fsUtils.getAllTemplatesOfAType(templateType): the folders of the kind,
\* in the order of the listing.
getAllTemplatesOfAType(templateType) == [i \in 1..MaxSwept |-> Handle(i)]

SweptRepo ==
  (TemplateTypes \cup {"sharedPart"}) \X { Handle(i) : i \in 1..MaxSwept }

\* configTemplate.handle || configTemplate.name || configTemplate.name_nl
handleOf(configTemplate) ==
  IF configTemplate.handle # NoString THEN configTemplate.handle
  ELSE IF configTemplate.name # NoString THEN configTemplate.name
  ELSE configTemplate.name_nl

\* The loop of getAllTemplatesId from the k-th folder on. raises: the
\* handles whose lookup makes the gateway raise. getTemplateId has no try:
\* the error leaves the loop and is caught around it (errorHandler).
RECURSIVE getAllTemplatesIdFrom(_, _, _, _, _, _, _, _)
getAllTemplatesIdFrom(cfgs, rem, type, envId, templateType, raises, k, lookups) ==
  LET templates == getAllTemplatesOfAType(templateType)
  IN  IF k > Len(templates)
      THEN [configs |-> cfgs, lookups |-> lookups, caught |-> FALSE,
            alive |-> TRUE]
      ELSE LET configTemplate == readConfig(cfgs, templateType, templates[k])
               handle == handleOf(configTemplate)
               r == getTemplateId(cfgs, rem, type, envId, templateType, handle)
           IN  IF handle = NoString
                 THEN getAllTemplatesIdFrom(cfgs, rem, type, envId,
                                            templateType, raises, k + 1,
                                            lookups)
               ELSE IF handle \in raises
                 THEN [configs |-> cfgs,
                       lookups |-> Append(lookups, <<templateType, handle>>),
                       caught |-> TRUE, alive |-> ~errorHandlerExits]
               ELSE getAllTemplatesIdFrom(r.configs, rem, type, envId,
                                          templateType, raises, k + 1,
                                          lookups \o r.lookups)

getAllTemplatesId(cfgs, rem, type, envId, templateType, raises) ==
  getAllTemplatesIdFrom(cfgs, rem, type, envId, templateType, raises, 1, <<>>)

\* The platform's id of the i-th template of a kind.
SweptId(type, envId, key, i) == SeedId(type, envId, key) + 10 * i

\* A Config Record as the toolkit writes it: the identifying field of the
\* kind holds the folder's name; "nameless": no identifying field;
\* "bare": no id objects yet; "known": the ids of every environment.
SweptConfig(shape, key, i) ==
  LET known == IF shape = "known" THEN Scopes \X EnvIds ELSE {}
      named == IF shape = "nameless" THEN NoString ELSE key[2]
  IN  [id        |-> IF shape = "bare" THEN Undefined
                     ELSE Obj([e \in {e \in EnvIds : <<"firm", e>> \in known}
                                 |-> SweptId("firm", e, key, i)]),
       partnerId |-> IF shape = "bare" THEN Undefined
                     ELSE Obj([e \in {e \in EnvIds : <<"partner", e>> \in known}
                                 |-> SweptId("partner", e, key, i)]),
       used_in   |-> NoArray,
       handle    |-> IF echoField(key[1]) = "handle" THEN named ELSE NoString,
       name      |-> IF echoField(key[1]) = "name" THEN named ELSE NoString,
       name_nl   |-> IF echoField(key[1]) = "name_nl" THEN named ELSE NoString]

InitSweep ==
  \E shapes \in [1..MaxSwept -> {"empty", "known", "bare", "nameless"}],
     gone \in SUBSET (1..MaxSwept) :
    /\ configs = [key \in SweptRepo |->
                    LET i == CHOOSE i \in 1..MaxSwept : Handle(i) = key[2]
                    IN  SweptConfig(shapes[i], key, i)]
    /\ remote = [rk \in Scopes \X EnvIds \X SweptRepo |->
                   LET i == CHOOSE i \in 1..MaxSwept : Handle(i) = rk[3][2]
                   IN  IF i \in gone THEN 0
                       ELSE SweptId(rk[1], rk[2], rk[3], i)]
    /\ bodies = [key \in SweptRepo |-> "liquid"]
    /\ last = NoOp @@ [before |-> configs]
    /\ opsLeft = MaxSweepOps
    /\ run = Idle

GetAllTemplatesId ==
  \E type \in Scopes, envId \in EnvIds,
     templateType \in TemplateTypes \cup {"sharedPart"},
     raises \in SUBSET { Handle(i) : i \in 1..MaxSwept } :
    LET r == getAllTemplatesId(configs, remote, type, envId, templateType,
                               raises)
    IN  /\ opsLeft > 0
        /\ configs' = r.configs
        /\ last' = [op |-> "getAllTemplatesId", type |-> type,
                    envId |-> envId, templateType |-> templateType,
                    sharedPart |-> NoString, lookups |-> r.lookups,
                    caught |-> r.caught, alive |-> r.alive,
                    before |-> configs]
        /\ opsLeft' = opsLeft - 1
        /\ UNCHANGED <<remote, bodies, run>>

NextSweep == GetAllTemplatesId

SpecSweep == InitSweep /\ [][NextSweep]_vars

\* ------------------------------------------------------------------------
\* The command line: import-reconciliation, whose selectors --handle, --id
\* and --all exclude each other.

\* checkUniqueOption(["handle", "id", "all"], options)
uniqueParameters == {"handle", "id", "all"}

\* What commander stores for an option that was given: the text that
\* followed --handle or --id, which may be empty, and true for a flag.
OptionValues(option) ==
  IF option \in {"handle", "id"} THEN {NoString, "x"} ELSE {"true"}

\* The options objects commander hands to the action: a key for every
\* option that was given.
OptionSets ==
  UNION { { o \in [given -> {NoString, "x", "true"}] :
              \A k \in given : o[k] \in OptionValues(k) } :
          given \in SUBSET (uniqueParameters \cup {"yes"}) }

\* if (options.handle): a missing key and an empty string are falsy.
truthy(options, option) ==
  option \in DOMAIN options /\ options[option] # NoString

\* Object.keys(options).filter((element) => uniqueParameters.includes(element))
optionsToCheck(options) == (DOMAIN options) \cap uniqueParameters

\* The operation the if / else if chain of the action invokes, if any.
dispatched(options) ==
  IF truthy(options, "handle")
    THEN <<"importExistingReconciliationByHandle">>
  ELSE IF truthy(options, "id")
    THEN <<"importExistingReconciliationById">>
  ELSE IF truthy(options, "all")
    THEN <<"importExistingReconciliations">>
  ELSE <<>>

InitCli ==
  /\ configs = EmptyMap
  /\ remote = EmptyMap
  /\ bodies = EmptyMap
  /\ last = NoOp @@ [before |-> configs]
  /\ opsLeft = 0
  /\ run = Idle

\* commander has parsed the command line and calls the action.
ImportReconciliationCommand ==
  /\ run = Idle
  /\ \E options \in OptionSets, answer \in {"y", "yes", "n"} :
       run' = [kind |-> "cli", pc |-> "checkUniqueOption",
               options |-> options, answer |-> answer, printed |-> <<>>,
               invoked |-> <<>>, exitCode |-> 0]
  /\ UNCHANGED <<configs, remote, last, opsLeft, bodies>>

\* checkUniqueOption: unless exactly one of the selectors is a key of
\* options, the message is printed and the process exits with 1.
CheckUniqueOption ==
  /\ run # Idle /\ run.pc = "checkUniqueOption"
  /\ run' = IF Cardinality(optionsToCheck(run.options)) # 1
            THEN [run EXCEPT
                    !.printed = Append(@, "Only one of the following options must be used"),
                    !.exitCode = 1, !.pc = "exited"]
            ELSE [run EXCEPT !.pc = "promptConfirmation"]
  /\ UNCHANGED <<configs, remote, last, opsLeft, bodies>>

\* if (!options.yes) promptConfirmation(): any answer but y or yes cancels.
PromptConfirmation ==
  /\ run # Idle /\ run.pc = "promptConfirmation"
  /\ run' = IF ~truthy(run.options, "yes") /\ run.answer \notin {"y", "yes"}
            THEN [run EXCEPT !.printed = Append(@, "Operation cancelled"),
                             !.exitCode = 1, !.pc = "exited"]
            ELSE [run EXCEPT !.pc = "dispatch"]
  /\ UNCHANGED <<configs, remote, last, opsLeft, bodies>>

\* The if / else if chain over options.handle, options.id, options.all.
Dispatch ==
  /\ run # Idle /\ run.pc = "dispatch"
  /\ run' = [run EXCEPT !.invoked = dispatched(run.options), !.pc = "done"]
  /\ UNCHANGED <<configs, remote, last, opsLeft, bodies>>

NextCli ==
  \/ ImportReconciliationCommand
  \/ CheckUniqueOption
  \/ PromptConfirmation
  \/ Dispatch

SpecCli == InitCli /\ [][NextCli]_vars

\* ------------------------------------------------------------------------
\* The firm-only surface: removeSharedPartFromReconciliation.

\* used_in.findIndex((reconciliationText) => reconciliationText.id[firmId]
\* === configReconciliation.id[firmId]); 0 for -1. An id the reconciliation
\* does not have is undefined, and equals the undefined of every entry
\* without a mapping for firmId.
findByFirmId(list, firmId, reconciliationId) ==
  LET hits == { i \in 1..Len(list) :
                  Prop(list[i].id, firmId) = reconciliationId }
  IN  IF hits = {} THEN 0 ELSE CHOOSE i \in hits : \A j \in hits : i <= j

\* The entries findIndex looks at: up to the first match, all without one.
scannedBy(list, reconciliationIndex) ==
  IF reconciliationIndex = 0 THEN 1..Len(list) ELSE 1..reconciliationIndex

removeSharedPartFromReconciliation(cfgs, firmId, sharedPartHandle, reconciliationHandle, response) ==
  LET sKey == <<"sharedPart", sharedPartHandle>>
      configReconciliation == readConfig(cfgs, "reconciliationText",
                                         reconciliationHandle)
      configSharedPart == readConfig(cfgs, "sharedPart", sharedPartHandle)
      reconciliationId == Prop(configReconciliation.id, firmId)
      call == <<[type |-> "firm", envId |-> firmId,
                 sharedPartId |-> Prop(configSharedPart.id, firmId),
                 templateId |-> reconciliationId]>>
      list == configSharedPart.used_in.list
      reconciliationIndex == findByFirmId(list, firmId, reconciliationId)
      reconciliationText == list[reconciliationIndex]
      spliced == SubSeq(list, 1, reconciliationIndex - 1)
                   \o SubSeq(list, reconciliationIndex + 1, Len(list))
      newList ==
        IF KeyCount(reconciliationText.id) = 1 THEN spliced
        ELSE [list EXCEPT ![reconciliationIndex] =
                [reconciliationText EXCEPT
                   !.id = DelProp(reconciliationText.id, firmId)]]
  IN  \* configSharedPart.id[firmId], configReconciliation.id[firmId]
      IF ~configSharedPart.id.def \/ ~configReconciliation.id.def
        THEN [Failed(cfgs, <<>>, <<>>) EXCEPT !.ret = "undefined"]
      \* the call raised, or response.status of undefined
      ELSE IF response \in {Threw, NoResponse}
        THEN [Failed(cfgs, <<>>, call) EXCEPT !.ret = "undefined"]
      \* findIndex of undefined, or the id[firmId] of an entry without id
      ELSE IF \/ ~configSharedPart.used_in.def
              \/ \E i \in scannedBy(list, reconciliationIndex) : ~list[i].id.def
        THEN [Failed(cfgs, <<>>, call) EXCEPT !.ret = "undefined"]
      ELSE IF reconciliationIndex = 0
        THEN [Failed(cfgs, <<>>, call) EXCEPT !.ret = "undefined"]
      ELSE [ret     |-> "undefined",
            configs |-> writeConfig(
                          cfgs, "sharedPart", sharedPartHandle,
                          [configSharedPart EXCEPT !.used_in = Arr(newList)]),
            lookups |-> <<>>,
            calls   |-> call,
            writes  |-> <<sKey>>]

\* The reconciliation texts of the repository.
Reconciliations == { t \in Templates : t[1] = "reconciliationText" }

RemoveSharedPartFromReconciliation ==
  \E firmId \in EnvIds, s \in SharedParts, t \in Reconciliations :
   \E response \in Answers(removeSharedPartFromReconciliation(
                             configs, firmId, s, t[2], NoResponse),
                           DetachResponses) :
    LET r == removeSharedPartFromReconciliation(configs, firmId, s, t[2],
                                                response)
    IN  /\ opsLeft > 0
        /\ configs' = r.configs
        /\ last' = Logged("removeSharedPartFromReconciliation", "firm", firmId,
                          s, t[2], t[1], response, r)
        /\ opsLeft' = opsLeft - 1
        /\ UNCHANGED <<remote, bodies, run>>

NextLegacy == RemoveSharedPartFromReconciliation

SpecLegacy == Init /\ [][NextLegacy]_vars

\* ------------------------------------------------------------------------
\* Properties.

SpKey(l) == <<"sharedPart", l.sharedPart>>

TKey(l) == <<l.templateType, l.handle>>

\* The used_in list of a shared part, empty when the config has none.
UsedIn(cfgs, sharedPart) ==
  LET c == cfgs[<<"sharedPart", sharedPart>>]
  IN  IF c.used_in.def THEN c.used_in.list ELSE <<>>

\* The gateway attach / detach call was made and answered with this status.
Answered(l, status) == l.calls # <<>> /\ l.response = status

\* The "Save Configs" writes of addSharedPart happened: each discovery
\* writes one record before the gateway call, the rest is written after it.
SavedAfterCall(l) == l.calls # <<>> /\ Len(l.writes) > Len(l.lookups)

\* The kind a Usage Entry's type names (the firm-only surface wrote
\* "reconciliation" for reconciliation texts).
Kind(type) == IF type = "reconciliation" THEN "reconciliationText" ELSE type

SameCall(l1, l2) ==
  /\ l1.op = l2.op /\ l1.type = l2.type /\ l1.envId = l2.envId
  /\ l1.sharedPart = l2.sharedPart /\ l1.handle = l2.handle
  /\ l1.templateType = l2.templateType

EntriesFor(list, handle) ==
  Cardinality({ i \in 1..Len(list) : list[i].handle = handle })

\* C1: attaching the same (shared part, template) pair twice in a row, both
\* gateway calls answering 201, leaves exactly one Usage Entry for the
\* template, and used_in after the second attach equals used_in after the
\* first.
C1_AttachTwiceIsIdempotent ==
  [][ ( /\ last.op = "addSharedPart" /\ Answered(last, Created)
        /\ last'.op = "addSharedPart" /\ Answered(last', Created)
        /\ SameCall(last, last') )
      => /\ UsedIn(configs', last'.sharedPart) = UsedIn(configs, last.sharedPart)
         /\ EntriesFor(UsedIn(configs', last'.sharedPart), last'.handle) = 1
    ]_vars

\* A second successful attach has run: the entry and its mapping were there
\* before it, put there by the attach before (SpecSeq starts without
\* entries).
C1_Witness ==
  /\ last.op = "addSharedPart" /\ Answered(last, Created)
  /\ last.ret = "config"
  /\ opsLeft = MaxSeqOps - 2
  /\ EntriesFor(UsedIn(last.before, last.sharedPart), last.handle) = 1
  /\ UsedIn(configs, last.sharedPart) = UsedIn(last.before, last.sharedPart)

\* C2: used_in holds at most one entry per (type, handle) pair after a
\* successful attach, and a successful attach of (T, h) leaves every entry
\* whose handle is h but whose type is another kind than T as it was.
C2_FindOrCreateByTypeAndHandle ==
  (last.op = "addSharedPart" /\ last.ret = "config") =>
    LET bl == UsedIn(last.before, last.sharedPart)
        al == UsedIn(configs, last.sharedPart)
    IN  /\ \A i, j \in 1..Len(al) :
             i # j => <<Kind(al[i].type), al[i].handle>>
                        # <<Kind(al[j].type), al[j].handle>>
        /\ \A i \in 1..Len(bl) :
             (bl[i].handle = last.handle /\ Kind(bl[i].type) # last.templateType)
               => (i <= Len(al) /\ al[i] = bl[i])

\* C3: an attach response that is missing or whose status is not 2xx makes
\* addSharedPart return false and write no Config Record after the call.
C3_Non2xxAttachIsFailure ==
  ( /\ last.op = "addSharedPart" /\ last.calls # <<>>
    /\ last.response \notin {Ok, Created} )
  => (last.ret = "false" /\ ~SavedAfterCall(last))

\* C4: a successful attach of a template that had no Usage Entry creates
\* {type, handle} whose map for the active scope holds exactly envId mapped
\* to the template's id, the other scope's map being empty.
C4_NewEntryHoldsOnlyEnvId ==
  ( /\ last.op = "addSharedPart" /\ last.ret = "config"
    /\ EntriesFor(UsedIn(last.before, last.sharedPart), last.handle) = 0 )
  => LET al == UsedIn(configs, last.sharedPart)
         e == al[Len(al)]
         only == Obj(last.envId :> last.calls[1].templateId)
     IN  /\ Len(al) = Len(UsedIn(last.before, last.sharedPart)) + 1
         /\ e.type = last.templateType /\ e.handle = last.handle
         /\ IF last.type = "firm"
            THEN e.id = only /\ e.partnerId = Obj(EmptyMap)
            ELSE e.partnerId = only /\ e.id = Obj(EmptyMap)

\* C5: addSharedPart looks a missing template id, then a missing shared
\* part id, up on the platform and persists what it finds; when a lookup
\* finds nothing it returns false, calls no gateway attach and leaves
\* used_in as it was.
C5_MissingIdsAreDiscoveredOrFail ==
  (last.op = "addSharedPart" /\ ~unsupportedOnPartner(last.type, last.templateType))
  => LET tMissing == idForScope(last.before[TKey(last)], last.type, last.envId) = 0
         sMissing == idForScope(last.before[SpKey(last)], last.type, last.envId) = 0
         At(key) == remote[<<last.type, last.envId, key>>]
         looked == { last.lookups[i] : i \in 1..Len(last.lookups) }
     IN  /\ tMissing <=> TKey(last) \in looked
         /\ (sMissing /\ (tMissing => At(TKey(last)) # 0)) <=> SpKey(last) \in looked
         /\ \A key \in looked :
              IF At(key) # 0
              THEN idForScope(configs[key], last.type, last.envId) = At(key)
              ELSE /\ last.ret = "false"
                   /\ last.calls = <<>>
                   /\ configs[SpKey(last)].used_in
                        = last.before[SpKey(last)].used_in

\* The template's id was discovered and persisted, the shared part's lookup
\* found nothing.
C5_Witness ==
  /\ last.op = "addSharedPart"
  /\ last.lookups = <<TKey(last), SpKey(last)>>
  /\ remote[<<last.type, last.envId, SpKey(last)>>] = 0
  /\ last.writes = <<TKey(last)>>
  /\ last.ret = "false"

\* C6: attaching to an export file under partner scope is rejected: false,
\* no gateway call, every Config Record unchanged.
C6_PartnerExportFileRejected ==
  (last.op = "addSharedPart" /\ last.type = "partner"
     /\ last.templateType = "exportFile")
  => /\ last.ret = "false"
     /\ last.calls = <<>> /\ last.lookups = <<>> /\ last.writes = <<>>
     /\ configs = last.before

C6_Witness ==
  /\ last.op = "addSharedPart" /\ last.type = "partner"
  /\ last.templateType = "exportFile"
  /\ remote[<<last.type, last.envId, TKey(last)>>] # 0
  /\ remote[<<last.type, last.envId, SpKey(last)>>] # 0

\* C7: removeSharedPart with no local id of the template or of the shared
\* part for (scope, envId) returns false, makes no lookup and no detach call
\* and writes no Config Record.
C7_DetachNeverDiscovers ==
  ( /\ last.op = "removeSharedPart"
    /\ \/ idForScope(last.before[TKey(last)], last.type, last.envId) = 0
       \/ idForScope(last.before[SpKey(last)], last.type, last.envId) = 0 )
  => /\ last.ret = "false"
     /\ last.calls = <<>> /\ last.lookups = <<>> /\ last.writes = <<>>
     /\ configs = last.before

\* The ids are missing locally though the platform has the templates.
C7_Witness ==
  /\ last.op = "removeSharedPart"
  /\ idForScope(last.before[TKey(last)], last.type, last.envId) = 0
  /\ remote[<<last.type, last.envId, TKey(last)>>] # 0
  /\ remote[<<last.type, last.envId, SpKey(last)>>] # 0

\* The entry removeSharedPart finds for the last operation's handle in the
\* used_in it read; the list position is 0 when there is none.
FoundAt(l) == findUsedIn(UsedIn(l.before, l.sharedPart), l.handle)

\* A firm-scope detach of the last operation's pair went past the gateway
\* call (the call returned) and met a well-formed Usage Entry.
FirmDetachOf(l) ==
  /\ l.op = "removeSharedPart" /\ l.type = "firm"
  /\ l.calls # <<>> /\ l.response # Threw
  /\ FoundAt(l) # 0
  /\ UsedIn(l.before, l.sharedPart)[FoundAt(l)].id.def
  /\ UsedIn(l.before, l.sharedPart)[FoundAt(l)].partnerId.def

\* C8: detach threshold. An entry whose id map holds only envId (and that
\* maps it to the template's resolved id) and whose partnerId map is empty
\* is removed from used_in as a whole; an entry with two keys in id and an
\* empty partnerId map stays, with exactly the other key left.
C8_DetachThreshold ==
  FirmDetachOf(last) =>
    LET bl == UsedIn(last.before, last.sharedPart)
        al == UsedIn(configs, last.sharedPart)
        i == FoundAt(last)
        e == bl[i]
        others == (DOMAIN e.id.m) \ {last.envId}
    IN  /\ ( /\ DOMAIN e.id.m = {last.envId}
             /\ DOMAIN e.partnerId.m = {}
             /\ e.id.m[last.envId] = last.calls[1].templateId )
           => /\ Len(al) = Len(bl) - 1
              /\ EntriesFor(al, last.handle) = 0
              /\ \A j \in 1..Len(al) : al[j] = bl[IF j < i THEN j ELSE j + 1]
        /\ ( /\ last.envId \in DOMAIN e.id.m
             /\ Cardinality(DOMAIN e.id.m) = 2
             /\ DOMAIN e.partnerId.m = {} )
           => /\ Len(al) = Len(bl)
              /\ al[i] = [e EXCEPT !.id = Obj([k \in others |-> e.id.m[k]])]
              /\ Cardinality(others) = 1

\* The two-key case: one of two firm keys was detached.
C8_Witness ==
  /\ FirmDetachOf(last)
  /\ LET e == UsedIn(last.before, last.sharedPart)[FoundAt(last)]
     IN  /\ DOMAIN e.id.m = EnvIds
         /\ DOMAIN e.partnerId.m = {}
  /\ last.writes = <<SpKey(last)>>

\* The one-key case: the last id of an entry was detached.
C8_WitnessWholeEntry ==
  /\ FirmDetachOf(last)
  /\ LET e == UsedIn(last.before, last.sharedPart)[FoundAt(last)]
     IN  /\ DOMAIN e.id.m = {last.envId}
         /\ DOMAIN e.partnerId.m = {}
         /\ e.id.m[last.envId] = last.calls[1].templateId
  /\ last.writes = <<SpKey(last)>>

\* C9 as stated: a resolve (getTemplateId) of a handle whose map already
\* holds envId performs no gateway lookup, so that two resolves in a row
\* perform one lookup in total.
C9_ResolveHitsCache ==
  ( /\ last.op = "getTemplateId"
    /\ idForScope(last.before[TKey(last)], last.type, last.envId) # 0 )
  => last.lookups = <<>>

\* C9 amended: the cache check is addSharedPart's. An attach whose two ids
\* are in the maps of the scope performs no lookup and calls the gateway
\* with the stored ids; getTemplateId performs exactly one lookup on every
\* call, so two getTemplateId calls in a row on the same handle, the
\* platform unchanged, perform two lookups and store the same id.
C9_CacheCheckIsInAttach ==
  /\ [] ( ( /\ last.op = "addSharedPart"
            /\ ~unsupportedOnPartner(last.type, last.templateType)
            /\ idForScope(last.before[TKey(last)], last.type, last.envId) # 0
            /\ idForScope(last.before[SpKey(last)], last.type, last.envId) # 0 )
          => /\ last.lookups = <<>>
             /\ last.calls =
                  <<[type |-> last.type, envId |-> last.envId,
                     sharedPartId |-> idForScope(last.before[SpKey(last)],
                                                 last.type, last.envId),
                     templateId |-> idForScope(last.before[TKey(last)],
                                               last.type, last.envId)]>> )
  /\ [] (last.op = "getTemplateId" => last.lookups = <<TKey(last)>>)
  /\ [][ ( /\ last.op = "getTemplateId" /\ last.ret = "true"
           /\ last'.op = "getTemplateId" /\ SameCall(last, last') )
         => /\ Len(last.lookups) + Len(last'.lookups) = 2
            /\ last'.ret = "true"
            /\ idForScope(configs'[TKey(last')], last'.type, last'.envId)
                 = idForScope(configs[TKey(last)], last.type, last.envId)
       ]_vars

\* The second of two successful getTemplateId calls on a handle: the id
\* was stored before the call, and the call still went to the platform.
C9_Witness ==
  /\ last.op = "getTemplateId" /\ last.ret = "true"
  /\ opsLeft = MaxSeqOps - 2
  /\ last.lookups = <<TKey(last)>>
  /\ idForScope(last.before[TKey(last)], last.type, last.envId)
       = remote[<<last.type, last.envId, TKey(last)>>]
  /\ configs = last.before

\* C10: when the platform has no template of that handle, getTemplateId
\* returns false, leaves the stored records as they were and has made one
\* lookup.
C10_NotFoundIsSideEffectFree ==
  ( /\ last.op = "getTemplateId"
    /\ remote[<<last.type, last.envId, TKey(last)>>] = 0 )
  => /\ last.ret = "false"
     /\ last.writes = <<>>
     /\ configs = last.before
     /\ last.lookups = <<TKey(last)>>

\* A config without id objects was not even normalised.
C10_Witness ==
  /\ last.op = "getTemplateId"
  /\ remote[<<last.type, last.envId, TKey(last)>>] = 0
  /\ ~last.before[TKey(last)].id.def
  /\ last.ret = "false"

\* The map of the scope, and the map of the other scope, of a config.
ScopeMap(config, type) == IF type = "firm" THEN config.id ELSE config.partnerId

OtherMap(config, type) == IF type = "firm" THEN config.partnerId ELSE config.id

\* C11 as stated: a successful getTemplateId stores the discovered id under
\* envId in the map of the scope and neither reads nor alters the map of the
\* other scope: the record's other map is what it was, present or absent.
C11_OtherScopeUntouched ==
  (last.op = "getTemplateId" /\ last.ret = "true")
  => /\ idForScope(configs[TKey(last)], last.type, last.envId)
          = remote[<<last.type, last.envId, TKey(last)>>]
     /\ OtherMap(configs[TKey(last)], last.type)
          = OtherMap(last.before[TKey(last)], last.type)

\* C11 amended: a successful getTemplateId stores the discovered id under
\* envId in the map of the scope, every other key of that map keeping its
\* value; the other scope's map keeps every id it held, but it is looked at
\* and, when the record had none, written as an empty map; used_in and the
\* other records are left as they were.
C11_ScopeIndependence ==
  (last.op = "getTemplateId" /\ last.ret = "true")
  => LET b == last.before[TKey(last)]
         a == configs[TKey(last)]
         mineB == ScopeMap(b, last.type)
         mineA == ScopeMap(a, last.type)
     IN  /\ Prop(mineA, last.envId) = remote[<<last.type, last.envId, TKey(last)>>]
         /\ DOMAIN mineA.m = (DOMAIN mineB.m) \cup {last.envId}
         /\ \A e \in (DOMAIN mineB.m) \ {last.envId} : mineA.m[e] = mineB.m[e]
         /\ OtherMap(a, last.type).def
         /\ OtherMap(a, last.type).m = OtherMap(b, last.type).m
         /\ a.used_in = b.used_in
         /\ \A key \in Repo \ {TKey(last)} : configs[key] = last.before[key]

\* A record written by the firm-only surface gets the id of a second
\* environment: the stored id stays, and an empty partnerId map appears.
C11_Witness ==
  /\ last.op = "getTemplateId" /\ last.ret = "true" /\ last.type = "firm"
  /\ DOMAIN last.before[TKey(last)].id.m = EnvIds \ {last.envId}
  /\ ~last.before[TKey(last)].partnerId.def
  /\ configs[TKey(last)].partnerId = Obj(EmptyMap)
  /\ DOMAIN configs[TKey(last)].id.m = EnvIds

\* The other scope's map held ids when the id was discovered.
C11_WitnessBothScopes ==
  /\ last.op = "getTemplateId" /\ last.ret = "true"
  /\ DOMAIN OtherMap(last.before[TKey(last)], last.type).m # {}
  /\ last.envId \notin DOMAIN ScopeMap(last.before[TKey(last)], last.type).m

\* C20: addSharedPart returns the boolean true when the shared part was
\* added (the gateway call was made and the Config Records were saved) and
\* false otherwise.
C20_AttachReturnsBoolean ==
  last.op = "addSharedPart"
  => last.ret = (IF SavedAfterCall(last) THEN "true" ELSE "false")

PublishOps ==
  {"publishReconciliationByHandle", "publishExportFileByName",
   "publishAccountTemplateByName", "publishSharedPartByName"}

\* The Config Record the last publish was asked for holds no id for the
\* scope and environment, or does not exist.
NoIdToPublish(l) ==
  \/ TKey(l) \notin DOMAIN l.before
  \/ idForScope(l.before[TKey(l)], l.type, l.envId) = 0

\* C12: publish without a Config Record, or without an id for (scope,
\* envId) in it, returns false, calls neither the gateway update nor a
\* discovery lookup, and does not read the template body.
C12_PublishPrecondition ==
  (last.op \in PublishOps /\ NoIdToPublish(last))
  => /\ last.ret = "false"
     /\ last.calls = <<>> /\ last.lookups = <<>> /\ last.reads = <<>>

\* The record exists without the id, though the platform has the template
\* and the repository has its text.
C12_Witness ==
  /\ last.op \in PublishOps
  /\ TKey(last) \in DOMAIN last.before
  /\ idForScope(last.before[TKey(last)], last.type, last.envId) = 0
  /\ remote[<<last.type, last.envId, TKey(last)>>] # 0
  /\ bodies[TKey(last)] # NoBody
  /\ last.ret = "false"

\* There is no Config Record at all.
C12_WitnessNoRecord ==
  /\ last.op \in PublishOps
  /\ TKey(last) \notin DOMAIN last.before
  /\ bodies[TKey(last)] # NoBody
  /\ last.ret = "false"

\* The identifying field the update response echoes for the kind of the
\* last publish: handle, name or name_nl; empty when the response has none.
Echo(l) ==
  LET field == CASE l.templateType = "reconciliationText" -> "handle"
                 [] l.templateType = "accountTemplate" -> "name_nl"
                 [] OTHER -> "name"
  IN  IF l.response.def /\ l.response.data.def
         /\ field \in DOMAIN l.response.data.m
      THEN l.response.data.m[field] ELSE NoString

\* C13: publish returns true exactly when the update was called and its
\* response echoes the identifying field of the kind; an update that
\* returned without that echo makes publish return false.
C13_SuccessIsTheEcho ==
  last.op \in PublishOps
  => /\ last.ret = "true" <=> (last.calls # <<>> /\ Echo(last) # NoString)
     /\ (last.calls # <<>> /\ ~last.response.threw /\ Echo(last) = NoString)
        => last.ret = "false"

\* The update answered with data that holds another field than the one of
\* the kind.
C13_Witness ==
  /\ last.op \in PublishOps
  /\ last.calls # <<>>
  /\ last.response.def /\ last.response.data.def
  /\ DOMAIN last.response.data.m # {}
  /\ \A f \in DOMAIN last.response.data.m : last.response.data.m[f] # NoString
  /\ Echo(last) = NoString
  /\ last.ret = "false"

C13_WitnessEcho ==
  /\ last.op = "publishAccountTemplateByName"
  /\ last.calls # <<>>
  /\ Echo(last) = last.handle
  /\ last.ret = "true"

\* C14: the body passed to the gateway update carries version_comment, the
\* caller's message or else the default of the function, and carries
\* version_significant_change, set to false, exactly under partner scope.
C14_StampedBody ==
  (last.op \in PublishOps /\ last.calls # <<>>)
  => LET body == last.calls[1].template.m
     IN  /\ body["version_comment"]
              = (IF last.message.def THEN last.message.str
                 ELSE defaultMessage(last.templateType))
         /\ "version_significant_change" \in DOMAIN body
              <=> last.type = "partner"
         /\ "version_significant_change" \in DOMAIN body
              => body["version_significant_change"] = FALSE
         /\ body["text"] = bodies[TKey(last)]

\* A firm publish with the caller's message went to the gateway.
C14_Witness ==
  /\ last.op \in PublishOps /\ last.calls # <<>>
  /\ last.type = "firm"
  /\ last.message = Message("release 2")
  /\ last.calls[1].template.m["version_comment"] = "release 2"

\* A partner publish without a message went to the gateway.
C14_WitnessDefault ==
  /\ last.op = "publishSharedPartByName" /\ last.calls # <<>>
  /\ last.type = "partner"
  /\ ~last.message.def
  /\ last.calls[1].template.m["version_comment"]
       = "Updated through the Silverfin CLI"

CreateOps ==
  {"newReconciliation", "newExportFile", "newAccountTemplate", "newSharedPart"}

\* The gateway create of the last operation was called and answered 201.
CreatedRemotely(l) ==
  l.calls # <<>> /\ l.response.def /\ l.response.status = Created

\* C15 as stated: a create that finds the template on the platform calls no
\* gateway create and changes no Config Record, and two creates in a row
\* for the same handle issue at most one gateway create between them.
C15_AtMostOneCreateCall ==
  /\ [] ( (last.op \in CreateOps /\ last.existing # 0)
          => (last.calls = <<>> /\ configs = last.before) )
  /\ [][ (last.op \in CreateOps /\ last'.op \in CreateOps /\ SameCall(last, last'))
         => Len(last.calls) + Len(last'.calls) <= 1 ]_vars

\* C15 amended: a create looks the handle up under firm scope first; when
\* the template is found it calls no gateway create and changes no Config
\* Record. Of two creates in a row for the same handle at most one creates
\* a template (a create answered 201); after a create that was answered
\* 201 the next one issues no create call, after one that failed it issues
\* the create call again.
C15_CreateIsIdempotent ==
  /\ [] ( last.op \in CreateOps
          => /\ last.lookups = <<TKey(last)>>
             /\ last.existing # 0
                  => (last.calls = <<>> /\ last.writes = <<>>
                      /\ configs = last.before) )
  /\ [][ (last.op \in CreateOps /\ last'.op \in CreateOps /\ SameCall(last, last'))
         => /\ ~(CreatedRemotely(last) /\ CreatedRemotely(last'))
            /\ CreatedRemotely(last) => last'.calls = <<>>
            /\ (last.calls # <<>> /\ ~CreatedRemotely(last))
                 => last'.calls # <<>> ]_vars

\* The second of two creates of a handle: the first one created the
\* template and stored its id, the second one found it and did nothing.
C15_Witness ==
  /\ last.op \in CreateOps
  /\ opsLeft = MaxCreateOps - 2
  /\ last.existing = NewId(last.envId, TKey(last))
  /\ TKey(last) \in DOMAIN last.before
  /\ Prop(last.before[TKey(last)].id, last.envId) = last.existing
  /\ last.calls = <<>>
  /\ configs = last.before

\* C16: create stores the new id in id[envId] of the Config Record of the
\* handle or name passed to it exactly when the gateway create answered
\* 201; on any other answer, and when there is no body, it writes nothing.
C16_IdStoredIffCreated ==
  last.op \in CreateOps
  => IF CreatedRemotely(last)
     THEN /\ last.writes = <<TKey(last)>>
          /\ configs = updateTemplateId(last.before, last.templateType,
                                        last.envId, last.handle,
                                        last.response.data.m["id"])
     ELSE last.writes = <<>> /\ configs = last.before

\* The records of the platform, and those the import has saved.
Listed == UNION { Range(remote.pages[p]) : p \in 1..Len(remote.pages) }

Imported == { i \in Listed : <<run.kind, Handle(i)>> \in DOMAIN bodies }

\* Nothing of the import is left to run: the process has exited, or the
\* page loop has returned and every callback is through.
Finished ==
  /\ run # Idle
  /\ ~run.alive \/ (run.awaiting = 0 /\ run.inFlight = {})

\* C17: fetchAll<Kind> requests the pages 1, 2, 3, ... in order, each once,
\* and none after the first empty page; when no record fails, a finished
\* import has requested every page up to the empty one and has imported
\* exactly the records of the platform.
C17_PaginationTermination ==
  (run # Idle /\ remote.broken = {})
  => /\ \A p \in 1..Len(run.requested) : run.requested[p] = p
     /\ Len(run.requested) <= Len(remote.pages) + 1
     /\ Finished => /\ Len(run.requested) = Len(remote.pages) + 1
                    /\ Imported = Listed

\* C18: a record whose fetch or save fails stops neither the other records
\* of its page nor the next pages: a finished import has requested every
\* page up to the empty one and has imported every other record.
C18_RecordFailureIsIsolated ==
  (Finished /\ remote.broken # {})
  => /\ Len(run.requested) = Len(remote.pages) + 1
     /\ Listed \ remote.broken \subseteq Imported

\* The addSharedPart calls the entries of a used_in list ask for, from
\* entry k on: one per entry that has a handle or a name and whose template
\* folder is in the repository.
RECURSIVE CallsFor(_, _, _)
CallsFor(sharedPart, entries, k) ==
  IF k > Len(entries) THEN <<>>
  ELSE LET e == entries[k]
           h == IF e.handle # NoString THEN e.handle ELSE e.name
           rest == CallsFor(sharedPart, entries, k + 1)
       IN  IF h = NoString THEN rest
           ELSE IF ~( /\ <<e.type, h>> \in DOMAIN bodies
                      /\ bodies[<<e.type, h>>] # NoBody ) THEN rest
           ELSE <<<<sharedPart, h, e.type>>>> \o rest

\* C19: addAllSharedParts calls addSharedPart exactly once, with the given
\* (scope, envId), for every entry of every shared part's used_in list that
\* has a handle or a name and whose template is in the repository, with
\* (the shared part iterated, the entry's handle or name, the entry's
\* type), and makes no other call.
C19_AttachAllCallsPerEntry ==
  last.op = "addAllSharedParts"
  => last.calls = CallsFor("sp_w", UsedIn(last.before, "sp_w"), 1)
                    \o CallsFor("sp_x", UsedIn(last.before, "sp_x"), 1)


\* A detach of the last operation's pair, in either scope, went past the
\* gateway call (the call returned) and met a well-formed Usage Entry.
DetachOf(l) ==
  /\ l.op = "removeSharedPart"
  /\ l.calls # <<>> /\ l.response # Threw
  /\ FoundAt(l) # 0
  /\ UsedIn(l.before, l.sharedPart)[FoundAt(l)].id.def
  /\ UsedIn(l.before, l.sharedPart)[FoundAt(l)].partnerId.def

\* C21: removeSharedPart removes a Usage Entry as a whole only when the key
\* it detaches is the last id left across the entry's two maps; otherwise
\* the entry stays and loses at most the envId key of the active scope's
\* map: the other scope's map, the entry's type and handle, every other
\* entry and every other Config Record keep their values.
C21_DetachFrame ==
  DetachOf(last) =>
    LET bl == UsedIn(last.before, last.sharedPart)
        al == UsedIn(configs, last.sharedPart)
        i == FoundAt(last)
        e == bl[i]
        active == IF last.type = "firm" THEN e.id ELSE e.partnerId
        kept == IF last.type = "firm"
                THEN [e EXCEPT !.id = DelProp(e.id, last.envId)]
                ELSE [e EXCEPT !.partnerId = DelProp(e.partnerId, last.envId)]
    IN  /\ Len(al) \in {Len(bl), Len(bl) - 1}
        /\ Len(al) < Len(bl) =>
              /\ DOMAIN active.m = {last.envId}
              /\ KeyCount(e.id) + KeyCount(e.partnerId) = 1
              /\ \A j \in 1..Len(al) : al[j] = bl[IF j < i THEN j ELSE j + 1]
        /\ Len(al) = Len(bl) => al = [bl EXCEPT ![i] = kept]
        /\ \A key \in DOMAIN configs :
              key # SpKey(last) => configs[key] = last.before[key]

\* A partner-scope detach on an entry that holds the environment in both
\* maps: the firm key has to survive.
C21_Witness ==
  /\ DetachOf(last) /\ last.type = "partner"
  /\ LET e == UsedIn(last.before, last.sharedPart)[FoundAt(last)]
     IN  /\ last.envId \in DOMAIN e.id.m
         /\ last.envId \in DOMAIN e.partnerId.m
  /\ last.writes = <<SpKey(last)>>
  /\ Len(UsedIn(configs, last.sharedPart))
       = Len(UsedIn(last.before, last.sharedPart))


\* C22: removeSharedPart does its local bookkeeping only when the detach
\* call answered with success (200) or "already detached / entry not
\* found" (404); after any other outcome of the call the Config Records,
\* used_in included, are what they were.
C22_BookkeepingOnlyOnSuccess ==
  ( /\ last.op = "removeSharedPart" /\ last.calls # <<>>
    /\ last.response \notin {Ok, 404} )
  => /\ configs = last.before
     /\ last.writes = <<>>


\* No Usage Entry of the shared part the last operation names carries the
\* operation's handle, as handle or as name.
NoEntryFor(l) ==
  \A i \in 1..Len(UsedIn(l.before, l.sharedPart)) :
    /\ UsedIn(l.before, l.sharedPart)[i].handle # l.handle
    /\ UsedIn(l.before, l.sharedPart)[i].name # l.handle

\* C23: when removeSharedPart finds no Usage Entry for the handle it makes
\* no local change: no Config Record is written, and the shared part's
\* record in particular is what it was.
C23_NotFoundWritesNothing ==
  (last.op = "removeSharedPart" /\ NoEntryFor(last))
  => /\ last.writes = <<>>
     /\ configs = last.before

\* The detach call was made and returned for a shared part whose used_in
\* array holds an entry of another template only.
C23_Witness ==
  /\ last.op = "removeSharedPart" /\ NoEntryFor(last)
  /\ last.calls # <<>> /\ last.response = Ok
  /\ Len(UsedIn(last.before, last.sharedPart)) > 0


\* The last operation was an attach that succeeded (201, details stored).
AttachSucceeded(l) ==
  l.op = "addSharedPart" /\ Answered(l, Created) /\ l.ret # "false"

\* C24: a successful addSharedPart on a template that already has a Usage
\* Entry sets, in that entry, the key of the active (scope, envId) to the
\* template's id and nothing else: the other keys of both maps, the
\* entry's type and handle, and every other entry keep their values.
C24_AttachFrame ==
  AttachSucceeded(last) =>
    LET bl == UsedIn(last.before, last.sharedPart)
        al == UsedIn(configs, last.sharedPart)
        id == last.calls[1].templateId
    IN  \A i \in 1..Len(bl) :
          (bl[i].handle = last.handle /\ Kind(bl[i].type) = last.templateType)
          => al = [bl EXCEPT ![i] =
                     IF last.type = "firm"
                     THEN [bl[i] EXCEPT !.id = SetProp(@, last.envId, id)]
                     ELSE [bl[i] EXCEPT
                             !.partnerId = SetProp(@, last.envId, id)]]

\* A partner-scope attach succeeded on an entry that held a firm key only:
\* afterwards the one entry holds both.
C24_Witness ==
  /\ AttachSucceeded(last) /\ last.type = "partner"
  /\ LET bl == UsedIn(last.before, last.sharedPart)
         al == UsedIn(configs, last.sharedPart)
     IN  /\ Len(bl) = 1 /\ Len(al) = 1
         /\ bl[1].handle = last.handle
         /\ DOMAIN bl[1].id.m # {} /\ DOMAIN bl[1].partnerId.m = {}
         /\ al[1].id = bl[1].id
         /\ DOMAIN al[1].partnerId.m = {last.envId}


\* C25: the bulk operations process their items strictly one at a time: in
\* addAllSharedParts, publishAll<Kind>, newAll<Kind> and getAllTemplatesId
\* at most one per-item operation is in flight at any moment.
C25_OneItemAtATime ==
  (run # Idle /\ run.op \in {"addAllSharedParts", "getAllTemplatesId"}
                              \cup PublishAlls \cup NewAlls)
  => Cardinality(run.inFlight) <= 1

\* The second item's operation is in flight, after the first one's was
\* started and has settled.
C25_Witness ==
  /\ run # Idle
  /\ run.inFlight = {2}
  /\ 1 \in run.attempted


\* What the operation of process p does to the Config Records cfgs when it
\* runs on its own, from call to return.
Alone(cfgs, p) ==
  LET me == run.procs[p]
  IN  IF me.op = "addSharedPart"
      THEN addSharedPart(cfgs, remote, me.type, me.envId, me.sharedPart,
                         me.handle, me.templateType, me.response).configs
      ELSE removeSharedPart(cfgs, me.type, me.envId, me.sharedPart, me.handle,
                            me.templateType, me.response).configs

\* Process p wrote last, and the other process wrote between p's read of
\* the Config Records and p's write.
WroteOverOther(p) ==
  /\ run.kind = "race"
  /\ run.procs[p].pc = "done" /\ run.procs[p].stale
  /\ run.order[Len(run.order)] = p

\* C26: two addSharedPart (or removeSharedPart) operations on one shared
\* part that were started without awaiting each other race on the shared
\* part's Config Record: when the second to write had read the record
\* before the first wrote it, the used_in that is persisted is the one the
\* second alone would have left, the update of the first is lost.
C26_LostUpdate ==
  \A p \in Procs :
    WroteOverOther(p) =>
      UsedIn(configs, run.procs[p].sharedPart)
        = UsedIn(Alone(last.before, p), run.procs[p].sharedPart)

\* Two attaches of different templates, both answered 201, both written:
\* the persisted used_in is not what the two leave one after the other.
C26_Witness ==
  \E p, q \in Procs :
    /\ p # q /\ WroteOverOther(p)
    /\ run.procs[q].pc = "done" /\ run.procs[q].wrote
    /\ run.procs[p].op = "addSharedPart" /\ run.procs[q].op = "addSharedPart"
    /\ run.procs[p].response = Created /\ run.procs[q].response = Created
    /\ run.procs[p].handle # run.procs[q].handle
    /\ UsedIn(configs, run.procs[p].sharedPart)
         # UsedIn(Alone(Alone(last.before, q), p), run.procs[p].sharedPart)

\* The same for two detaches, both answered 200: the entry the first removed
\* is back.
C26_WitnessDetach ==
  \E p, q \in Procs :
    /\ p # q /\ WroteOverOther(p)
    /\ run.procs[q].pc = "done" /\ run.procs[q].wrote
    /\ run.procs[p].op = "removeSharedPart"
    /\ run.procs[q].op = "removeSharedPart"
    /\ run.procs[p].response = Ok /\ run.procs[q].response = Ok
    /\ run.procs[p].handle # run.procs[q].handle
    /\ UsedIn(configs, run.procs[p].sharedPart)
         # UsedIn(Alone(Alone(last.before, q), p), run.procs[p].sharedPart)


\* The bulk run is over: the loop has left its last turn, or the command
\* was ended.
BulkOver ==
  /\ run # Idle
  /\ run.inFlight = {}
  /\ ~run.alive \/ run.next > Len(run.items)

\* The per-item operation was started for every item the loop does not
\* skip.
EveryItemAttempted ==
  \A i \in 1..Len(run.items) :
    run.items[i] # "continue" => i \in run.attempted

\* C27: in addAllSharedParts and publishAll<Kind> a failing item (missing
\* id, handle not found, failure response, error raised by the gateway)
\* does not abort the batch: when the run is over, every item was attempted.
C27_FailingItemDoesNotAbort ==
  (BulkOver /\ run.op \in {"addAllSharedParts"} \cup PublishAlls)
  => EveryItemAttempted


\* The templates of the swept kind whose config has a handle, name or
\* name_nl, in the order of the listing, from the k-th folder on.
RECURSIVE NamedFrom(_, _)
NamedFrom(l, k) ==
  IF k > MaxSwept THEN <<>>
  ELSE LET c == l.before[<<l.templateType, Handle(k)>>]
       IN  (IF c.handle = NoString /\ c.name = NoString
                /\ c.name_nl = NoString
            THEN <<>> ELSE <<<<l.templateType, Handle(k)>>>>)
           \o NamedFrom(l, k + 1)

\* What the platform has for a template under the sweep's (scope, envId).
RemoteIdOf(l, key) == remote[<<l.type, l.envId, key>>]

\* C28: getAllTemplatesId invokes discovery exactly once for every local
\* template of the kind whose config has a handle, name or name_nl;
\* afterwards every such template the platform has holds the remote id
\* under envId in the scope's map (the id and partnerId objects are there),
\* and the Config Record of every other template is what it was.
C28_SweepDiscoversAll ==
  last.op = "getAllTemplatesId" =>
    /\ last.lookups = NamedFrom(last, 1)
    /\ \A key \in DOMAIN configs :
         IF key[1] = last.templateType
            /\ \E n \in 1..Len(NamedFrom(last, 1)) : NamedFrom(last, 1)[n] = key
            /\ RemoteIdOf(last, key) # 0
         THEN /\ configs[key].id.def /\ configs[key].partnerId.def
              /\ RemoteIdOf(last, key)
                   = (IF last.type = "firm" THEN configs[key].id.m
                      ELSE configs[key].partnerId.m)[last.envId]
         ELSE configs[key] = last.before[key]

\* C29: in getAllTemplatesId a gateway error raised while one template is
\* discovered does not keep the remaining templates from being discovered:
\* when the sweep is over, discovery was started for every template that
\* has a handle.
C29_SweepSurvivesRaisedError ==
  (BulkOver /\ run.op = "getAllTemplatesId") => EveryItemAttempted


\* The pages whose answer has arrived.
Arrived == { p \in Range(run.requested) : p # run.awaiting }

\* C30: for each of the four kinds, fetchAll<Kind>(scope, envId) invokes the
\* kind's save routine, with the requested (scope, envId), for every record
\* of every non-empty page, and reports "nothing found", returning
\* normally, exactly when page 1 is empty, never for a later empty page.
C30_FetchAllSavesAndReports ==
  run # Idle =>
    /\ \A p \in Arrived : Range(readPage(remote.pages, p)) \subseteq run.invoked
    /\ run.reported <=> (1 \in Arrived /\ readPage(remote.pages, 1) = <<>>)
    /\ ~run.threw


\* The Template Body Store has no body for the template of the last
\* operation, a publish or a create that got as far as reading it.
NoBodyRead(l) ==
  /\ l.op \in PublishOps \cup CreateOps
  /\ l.reads = <<TKey(l)>>
  /\ bodies[TKey(l)] = NoBody

\* C31: when the Template Body Store returns no body for the handle,
\* publish and create skip the operation: no gateway update or create call
\* is made and no Config Record is written.
C31_NoBodySkips ==
  (last.op \in PublishOps \cup CreateOps /\ bodies[TKey(last)] = NoBody)
  => /\ last.calls = <<>>
     /\ configs = last.before

\* A publish whose template has a config and an id, but no body.
C31_Witness == NoBodyRead(last) /\ last.op \in PublishOps

\* A create of a template the platform does not have, without a body.
C31_WitnessCreate == NoBodyRead(last) /\ last.op \in CreateOps


Selectors == (DOMAIN run.options) \cap {"handle", "id", "all"}

\* The action of the command is through: it returned or the process exited.
CommandOver == run # Idle /\ run.pc \in {"done", "exited"}

\* C33: import-reconciliation invokes exactly one toolkit operation when
\* exactly one of --handle, --id, --all is given, and invokes none, prints
\* "Only one of the following options must be used" and exits with code 1
\* when none or more than one are given.
C33_ExactlyOneSelector ==
  CommandOver =>
    IF Cardinality(Selectors) = 1
    THEN Len(run.invoked) = 1
    ELSE /\ run.invoked = <<>>
         /\ run.printed = <<"Only one of the following options must be used">>
         /\ run.exitCode = 1


\* Some entry of the list names the handle and maps envId to id under the
\* scope.
HoldsReference(list, handle, type, envId, id) ==
  \E i \in 1..Len(list) :
    /\ list[i].handle = handle \/ list[i].name = handle
    /\ ScopeMap(list[i], type).def
    /\ Prop(ScopeMap(list[i], type), envId) = id

\* C34: whenever the gateway attach call inside addSharedPart returns a
\* success response, the shared part's persisted used_in contains an entry
\* for templateHandle whose map for the active scope holds envId mapped to
\* the template's id, whatever the prior content of used_in (entries of the
\* firm-only surface, which have no partnerId map, included).
C34_AttachConverges ==
  (last.op = "addSharedPart" /\ Answered(last, Created)) =>
    HoldsReference(UsedIn(configs, last.sharedPart), last.handle, last.type,
                   last.envId, last.calls[1].templateId)

\* The same, for a used_in whose entry of the handle has both maps.
C34_HoldsOnFullEntries ==
  (/\ last.op = "addSharedPart" /\ Answered(last, Created)
   /\ LET bl == UsedIn(last.before, last.sharedPart)
      IN  \A i \in 1..Len(bl) :
            (bl[i].handle = last.handle \/ bl[i].name = last.handle)
            => bl[i].id.def /\ bl[i].partnerId.def) =>
    HoldsReference(UsedIn(configs, last.sharedPart), last.handle, last.type,
                   last.envId, last.calls[1].templateId)


\* No entry of the list that names the handle has a mapping for envId
\* under the scope.
HoldsNoReference(list, handle, type, envId) ==
  \A i \in 1..Len(list) :
    (list[i].handle = handle \/ list[i].name = handle)
    => ~ScopeMap(list[i], type).def \/ Prop(ScopeMap(list[i], type), envId) = 0

\* C35: whenever the gateway detach call inside removeSharedPart returns a
\* success response, the shared part's persisted used_in holds no mapping
\* for envId under the active scope in the entry of templateHandle,
\* whatever the prior shape of the Config Record (used_in absent, an entry
\* without an id or partnerId map).
C35_DetachConverges ==
  (last.op = "removeSharedPart" /\ Answered(last, Ok)) =>
    HoldsNoReference(UsedIn(configs, last.sharedPart), last.handle, last.type,
                     last.envId)

\* The same, for a used_in whose entry of the handle has both maps.
C35_HoldsOnFullEntries ==
  (/\ last.op = "removeSharedPart" /\ Answered(last, Ok)
   /\ LET bl == UsedIn(last.before, last.sharedPart)
      IN  \A i \in 1..Len(bl) :
            (bl[i].handle = last.handle \/ bl[i].name = last.handle)
            => bl[i].id.def /\ bl[i].partnerId.def) =>
    HoldsNoReference(UsedIn(configs, last.sharedPart), last.handle, last.type,
                     last.envId)


\* An entry whose id map and partnerId map hold no key.
EmptyEntry(entry) ==
  /\ entry.id.def /\ KeyCount(entry.id) = 0
  /\ entry.partnerId.def /\ KeyCount(entry.partnerId) = 0

HasEmptyEntry(cfgs) ==
  \E s \in SharedParts :
    \E i \in 1..Len(UsedIn(cfgs, s)) : EmptyEntry(UsedIn(cfgs, s)[i])

\* C36: after any sequence of addSharedPart, removeSharedPart and
\* getTemplateId operations, the remote ids changing in between, no Usage
\* Entry remains in a persisted used_in with both its id map and its
\* partnerId map empty.
C36_NoEmptyEntryRemains == ~HasEmptyEntry(configs)

\* The same, for a detach whose template is the one the entry was written
\* for (same kind, same id as the Config Record holds).
C36_HoldsForOwnEntry ==
  (/\ last.op = "removeSharedPart"
   /\ LET bl == UsedIn(last.before, last.sharedPart)
      IN  \A i \in 1..Len(bl) :
            bl[i].handle = last.handle
            => /\ Kind(bl[i].type) = last.templateType
               /\ ScopeMap(bl[i], last.type).def
               /\ Prop(ScopeMap(bl[i], last.type), last.envId)
                    \in {0, idForScope(last.before[TKey(last)], last.type,
                                       last.envId)})
  => ~HasEmptyEntry(configs)


\* The step is a detach the gateway answered with 200, of the template the
\* last operation attached (201 answered, details stored) under the same
\* scope, environment and shared part, the template having had no entry.
RoundTripStep ==
  /\ AttachSucceeded(last)
  /\ findUsedIn(UsedIn(last.before, last.sharedPart), last.handle) = 0
  /\ last'.op = "removeSharedPart" /\ Answered(last', Ok)
  /\ last'.type = last.type /\ last'.envId = last.envId
  /\ last'.sharedPart = last.sharedPart
  /\ last'.handle = last.handle /\ last'.templateType = last.templateType

\* C37: from a shared part whose used_in has no entry for template t, a
\* successful addSharedPart followed by a successful removeSharedPart with
\* the same arguments restores used_in to its initial value, for every
\* content of t's own id and partnerId maps.
C37_RoundTripRestores ==
  [][RoundTripStep =>
       UsedIn(configs', last.sharedPart) = UsedIn(last.before, last.sharedPart)
    ]_vars

\* The same, when t's map of the active scope holds envId only once the
\* attach has identified it.
C37_HoldsForOneKey ==
  [][(/\ RoundTripStep
      /\ KeyCount(ScopeMap(configs[TKey(last)], last.type)) = 1) =>
       UsedIn(configs', last.sharedPart) = UsedIn(last.before, last.sharedPart)
    ]_vars


\* How often an entry occurs in a list.
Occurrences(list, entry) == Cardinality({ i \in 1..Len(list) : list[i] = entry })

\* The entries the firm-only detach of r in firmId has no business with:
\* those of another reconciliation, and those without a mapping for firmId.
NotConcerned(entry, handle, firmId) ==
  entry.handle # handle \/ Prop(entry.id, firmId) = 0

\* C38: removeSharedPartFromReconciliation(firmId, sp, r) never removes or
\* alters a Usage Entry that belongs to a reconciliation other than r or
\* that has no mapping for firmId, also when r's Config Record has no id
\* for firmId.
C38_LegacyDetachLeavesOthers ==
  last.op = "removeSharedPartFromReconciliation" =>
    LET bl == UsedIn(last.before, last.sharedPart)
        al == UsedIn(configs, last.sharedPart)
    IN  \A i \in 1..Len(bl) :
          NotConcerned(bl[i], last.handle, last.envId)
          => Occurrences(al, bl[i]) >= Occurrences(bl, bl[i])

\* The same, when r's Config Record has an id for firmId.
C38_HoldsWhenIdentified ==
  (/\ last.op = "removeSharedPartFromReconciliation"
   /\ Prop(last.before[TKey(last)].id, last.envId) # 0) =>
    LET bl == UsedIn(last.before, last.sharedPart)
        al == UsedIn(configs, last.sharedPart)
    IN  \A i \in 1..Len(bl) :
          NotConcerned(bl[i], last.handle, last.envId)
          => Occurrences(al, bl[i]) >= Occurrences(bl, bl[i])


\* The pages fetchAll has to request: those with records and the empty one
\* after them.
PagesToRequest == 1..(Len(remote.pages) + 1)

\* C39: when the promise returned by fetchAll<Kind>(scope, envId) resolves,
\* every page up to and including the terminating empty page has been
\* requested, for each of the four kinds.
C39_ResolvedAfterLastPage ==
  (run # Idle /\ run.resolved) => PagesToRequest \subseteq Range(run.requested)

\* The same for fetchAllSharedParts, which awaits the next page.
C39_HoldsForSharedParts ==
  (run # Idle /\ run.resolved /\ run.kind = "sharedPart")
  => PagesToRequest \subseteq Range(run.requested)


\* The create function is through, the gateway raised no error, and the
\* platform has a template of the handle in the firm.
CreatedOrFound(l) ==
  /\ l.op \in CreateOps /\ ~l.response.threw
  /\ remote[<<"firm", l.envId, TKey(l)>>] # 0

\* C40: after new<Kind>(envId, handle) returns without a gateway error and
\* a template with that handle exists remotely in firm envId, the local
\* Config Record holds id[envId] for it, so that a following
\* publish("firm", envId, handle) passes its missing-id precondition.
C40_CreateLeavesPublishable ==
  CreatedOrFound(last) =>
    canPublish(configs, "firm", last.envId, last.templateType, last.handle)

\* The same, when the create call was made and the id was stored under the
\* handle passed in.
C40_HoldsWhenCreatedUnderHandle ==
  (/\ CreatedOrFound(last) /\ last.existing = 0
   /\ storedUnder(last.templateType, last.handle, last.response) = last.handle)
  => canPublish(configs, "firm", last.envId, last.templateType, last.handle)

====
